---- MODULE Spec2Model ----
(***************************************************************************)
(* Air-quality ETL: the normalisation pipeline (normalize_data.py) and the *)
(* incremental writers (fetch_openaq, fetch_latest_data, reprocess_cams)   *)
(* acting on the measurements, weather and unified_data tables.            *)
(*                                                                         *)
(* Numbers are decimal floats <<m, e>> = m * 10^e in normal form (m has no *)
(* trailing zero), so that 1e-8 kg/m3 and 10.0 ug/m3 are different values  *)
(* and a unit conversion is a real change of the exponent.  NULL is <<>>.  *)
(* Timestamps are minutes since an epoch that starts an hour.              *)
(***************************************************************************)
EXTENDS Integers, Sequences, FiniteSets, TLC

VARIABLES unified_data, measurements, weather, lastWriter, liveOverCams,
          rawInput, pc, runs, firstRun, handed, ops, calendar, aqi, ins, procs, call

vars == <<unified_data, measurements, weather, lastWriter, liveOverCams,
          rawInput, pc, runs, firstRun, handed, ops, calendar, aqi, ins, procs, call>>

\* ------------------------------------------------------------------ bounds
MaxRows == 3
MaxOps == 3
CalendarOps == 1
MaxChunks == 3
MaxFiles == 1
MeanDigits == 3

\* ------------------------------------------------------- decimal numbers
NULL == <<>>

Dec(m, e) == <<m, e>>

RECURSIVE Norm(_)
Norm(d) ==
    IF d[1] = 0 THEN <<0, 0>>
    ELSE IF d[1] % 10 = 0 THEN Norm(<<d[1] \div 10, d[2] + 1>>)
    ELSE d

RECURSIVE Pow10(_)
Pow10(k) == IF k = 0 THEN 1 ELSE 10 * Pow10(k - 1)

MinInt(a, b) == IF a <= b THEN a ELSE b

\* v * 10^k : val = row[cams_col] * factor with factor 1e9 or 1e6
DecMulPow10(d, k) == Norm(<<d[1], d[2] + k>>)

Abs(x) == IF x < 0 THEN -x ELSE x

\* a float keeps a finite mantissa: eight significant decimal digits here
MantissaLimit == Pow10(8)

RECURSIVE DigitCount(_)
DigitCount(m) == IF Abs(m) < 10 THEN 1 ELSE 1 + DigitCount(m \div 10)

\* hi has the larger exponent; the digits of lo below the mantissa are lost
DecAddAligned(hi, lo) ==
    LET d    == hi[2] - lo[2]
        room == 8 - DigitCount(hi[1])
    IN  IF d <= room THEN Norm(<<hi[1] * Pow10(d) + lo[1], lo[2]>>)
        ELSE IF d - room > 8 THEN Norm(<<hi[1] * Pow10(room), hi[2] - room>>)
        ELSE Norm(<<hi[1] * Pow10(room) + (lo[1] \div Pow10(d - room)), hi[2] - room>>)

DecAdd(a, b) ==
    IF a[1] = 0 THEN b
    ELSE IF b[1] = 0 THEN a
    ELSE IF a[2] >= b[2] THEN DecAddAligned(a, b) ELSE DecAddAligned(b, a)

\* the quotient keeps MeanDigits more digits than the dividend, and at most nine
\* significant digits in all (the mantissa of a float is finite)
RECURSIVE DivStep(_, _, _, _)
DivStep(m, e, n, k) ==
    IF m % n = 0 \/ k = 0 \/ Abs(m) >= MantissaLimit THEN Norm(<<m \div n, e>>)
    ELSE DivStep(m * 10, e - 1, n, k - 1)

DecDivInt(d, n) == DivStep(d[1], d[2], n, MeanDigits)

RECURSIVE DecSum(_)
DecSum(s) == IF s = <<>> THEN <<0, 0>> ELSE DecAdd(Head(s), DecSum(Tail(s)))

NotNullSeq(s) == SelectSeq(s, LAMBDA v : v # NULL)

\* AVG(...) / mean(): the mean of the non-null values, NULL when there is none
Mean(s) ==
    LET nn == NotNullSeq(s)
    IN  IF nn = <<>> THEN NULL ELSE DecDivInt(DecSum(nn), Len(nn))

\* ------------------------------------------------------------ timestamps
Timestamps == {0, 30, 60}

\* DATE_TRUNC('hour', timestamp_utc)
TruncHour(t) == t - (t % 60)

Location == "Astana"

\* The calendar gives the UTC date of timestamp 0, which is 23:00 of that day: its
\* month, its weekday (Monday = 0) and whether it is the last day of its month.
\* Timestamp 60 is 00:00 of the next day.
Calendars == [month : 1..12, weekday : 0..6, lastDay : BOOLEAN]

\* Friday, the last day of February
DefaultCalendar == [month |-> 2, weekday |-> 4, lastDay |-> TRUE]

\* the month and weekday (datetime.weekday(): Monday = 0) of the UTC date of ts
DateOf(ts) ==
    IF ts < 60 THEN [month |-> calendar.month, weekday |-> calendar.weekday]
    ELSE [month |-> IF calendar.lastDay THEN (calendar.month % 12) + 1 ELSE calendar.month,
          weekday |-> (calendar.weekday + 1) % 7]

HourOf(ts) == IF ts < 60 THEN 23 ELSE 0

\* the temporal feature columns of a row
WithFeatures(u, f) ==
    [u EXCEPT !.hour = f.hour, !.month = f.month, !.day_of_week = f.day_of_week,
              !.season = f.season, !.is_weekend = f.is_weekend,
              !.is_heating_season = f.is_heating_season]

\* ----------------------------------------------------- unified_data rows
Pollutants == {"pm25", "pm10", "no2", "o3", "so2", "co"}

NoSource == "NULL"

\* a row of unified_data with every nullable column NULL; id 0 until it is inserted
BlankRow(ts) ==
    [id |-> 0, timestamp_utc |-> ts, location |-> Location,
     pm25 |-> NULL, pm10 |-> NULL, no2 |-> NULL, o3 |-> NULL, so2 |-> NULL, co |-> NULL,
     temperature_c |-> NULL, humidity_pct |-> NULL, pressure_hpa |-> NULL,
     wind_speed_ms |-> NULL, wind_direction_deg |-> NULL,
     precipitation_mm |-> NULL, cloud_cover_pct |-> NULL,
     hour |-> NULL, month |-> NULL, day_of_week |-> NULL, season |-> NULL,
     is_weekend |-> NULL, is_heating_season |-> NULL,
     pm25_source |-> NoSource, weather_source |-> NoSource,
     completeness_score |-> 0]

\* SELECT id FROM unified_data WHERE timestamp_utc = %s
SelectByTimestamp(table, ts) == {u \in table : u.timestamp_utc = ts}

\* the serial id of the next inserted row (rows are only removed when the table is rebuilt)
NextId(table) == Cardinality(table) + 1

\* INSERT INTO unified_data of one row
InsertRow(table, row) == table \cup {[row EXCEPT !.id = NextId(table)]}

\* the writer that last assigned each pollutant slot of each timestamp
NoWriter == [p \in Pollutants |-> "none"]

SetWriter(lw, ts, slots, who) ==
    [lw EXCEPT ![ts] = [p \in Pollutants |-> IF p \in slots THEN who ELSE lw[ts][p]]]

\* history of the pm25 slot: <<value, source>> at the timestamps where a live update
\* that supplied pm25 replaced a reanalysis pm25 and no live update or rebuild came after
LiveWrite(loc, table, ts, value, source) ==
    [loc EXCEPT ![ts] =
        IF value # NULL /\ \E u \in SelectByTimestamp(table, ts) : u.pm25_source = "cams"
        THEN <<value, source>> ELSE <<>>]

\* ------------------------------------------------ fetch_openaq (live feed)
TimeMissing == [kind |-> "missing"]

TimeAt(t) == [kind |-> "time", t |-> t]

OpenaqValues == {NULL, Dec(0, 0), Dec(7, 0), Dec(-999, 0)}

OpenaqTimes == {TimeMissing, TimeAt(0), TimeAt(30)}

\* a time string that datetime.fromisoformat cannot parse
TimeBad == [kind |-> "bad"]

OpenaqMeasurements ==
    {[utc |-> u, value |-> v, parameter |-> "pm25"] : u \in OpenaqTimes, v \in OpenaqValues}
        \cup {[utc |-> u, value |-> Dec(7, 0), parameter |-> "pm10"] : u \in OpenaqTimes}

\* the measurements that are paired to exercise the sort of the results
OpenaqOlderNewer ==
    {[utc |-> TimeAt(0), value |-> Dec(7, 0), parameter |-> "pm25"],
     [utc |-> TimeAt(30), value |-> Dec(0, 0), parameter |-> "pm25"],
     [utc |-> TimeMissing, value |-> Dec(7, 0), parameter |-> "pm25"]}

SeqsUpTo(S, n) == UNION {[1..k -> S] : k \in 0..n}

OpenaqResponses ==
    {[net |-> "error", results |-> <<>>], [net |-> "ok", results |-> <<>>]}
        \cup {[net |-> "ok", results |-> <<m>>] : m \in OpenaqMeasurements}
        \cup {[net |-> "ok", results |-> <<[utc |-> TimeBad, value |-> Dec(7, 0), parameter |-> "pm25"]>>]}
        \cup {[net |-> "ok", results |-> <<m, n>>] : m \in OpenaqOlderNewer, n \in OpenaqOlderNewer}

\* x.get('period', {}).get('datetimeFrom', {}).get('utc', '') : '' sorts lowest
\* and an unparseable text that starts with a letter sorts above every ISO time
SortKey(m) ==
    IF m.utc.kind = "missing" THEN -1
    ELSE IF m.utc.kind = "bad" THEN 60 * 24
    ELSE m.utc.t

\* results.sort(key=..., reverse=True); measurement = results[0]
\* (a stable sort: among the results with the greatest key the first one stays first)
LatestMeasurement(results) ==
    LET i == CHOOSE i \in 1..Len(results) :
                /\ \A j \in 1..Len(results) : SortKey(results[j]) <= SortKey(results[i])
                /\ \A j \in 1..(i - 1) : SortKey(results[j]) < SortKey(results[i])
    IN  results[i]

\* "Prepare temporal features" of fetch_openaq, from dt_utc
OpenaqFeatures(dt_utc) ==
    LET month == DateOf(dt_utc).month
        day_of_week == DateOf(dt_utc).weekday
    IN  [hour |-> HourOf(dt_utc), month |-> month, day_of_week |-> day_of_week,
         is_weekend |-> day_of_week >= 5,
         is_heating_season |-> month \in {10, 11, 12, 1, 2, 3, 4},
         season |-> IF month \in {3, 4, 5} THEN "spring"
                    ELSE IF month \in {6, 7, 8} THEN "summer"
                    ELSE IF month \in {9, 10, 11} THEN "autumn"
                    ELSE "winter"]

\* UPDATE unified_data SET pm25 = %s, pm25_source = 'openaq' WHERE id = %s
OpenaqUpdate(table, id, value) ==
    {IF u.id = id THEN [u EXCEPT !.pm25 = value, !.pm25_source = "openaq"] ELSE u : u \in table}

\* INSERT INTO unified_data (...) VALUES (..., 'openaq', 0.3)
OpenaqInsert(table, dt_utc, value) ==
    InsertRow(table, WithFeatures([BlankRow(dt_utc) EXCEPT !.pm25 = value,
                                                           !.pm25_source = "openaq",
                                                           !.completeness_score = 30],
                                  OpenaqFeatures(dt_utc)))

\* the write of fetch_openaq: SELECT id, then UPDATE ... WHERE id, or INSERT
OpenaqWrite(table, dt_utc, value) ==
    LET existing == SelectByTimestamp(table, dt_utc)
    IN  IF existing # {}
        THEN OpenaqUpdate(table, (CHOOSE u \in existing : TRUE).id, value)
        ELSE OpenaqInsert(table, dt_utc, value)

\* fetch_openaq without its check of the parameter name
OpenaqExit_AnyParameter(resp) ==
    IF resp.net # "ok" \/ resp.results = <<>> THEN "returned"
    ELSE IF LatestMeasurement(resp.results).utc.kind = "missing" THEN "returned"
    ELSE IF LatestMeasurement(resp.results).utc.kind = "bad" THEN "raised"
    ELSE "select"

\* where Command.handle of fetch_openaq goes after the request: to its SELECT, to a
\* return, or out by the ValueError of datetime.fromisoformat
OpenaqExit(resp) ==
    IF resp.net # "ok" \/ resp.results = <<>> THEN "returned"
    ELSE IF LatestMeasurement(resp.results).utc.kind = "missing" THEN "returned"
    ELSE IF LatestMeasurement(resp.results).utc.kind = "bad" THEN "raised"
    ELSE IF LatestMeasurement(resp.results).parameter # "pm25" THEN "returned"
    ELSE "select"

\* TRUE when Command.handle of fetch_openaq reaches its write
OpenaqWrites(resp) == OpenaqExit(resp) = "select"

fetch_openaq_handle(resp) ==
    /\ IF OpenaqWrites(resp)
       THEN LET m == LatestMeasurement(resp.results)
            IN  /\ unified_data' = OpenaqWrite(unified_data, m.utc.t, m.value)
                /\ lastWriter' = SetWriter(lastWriter, m.utc.t, {"pm25"}, "live")
                /\ liveOverCams' = LiveWrite(liveOverCams, unified_data, m.utc.t, m.value, "openaq")
       ELSE UNCHANGED <<unified_data, lastWriter, liveOverCams, procs, call>>
    /\ UNCHANGED <<measurements, weather, rawInput, calendar, aqi, ins, pc, runs, firstRun, handed, procs, call>>

\* ------------------------------------------- fetch_latest_data (live feed)
IaqiKeys == {"pm25", "pm10", "no2", "so2", "o3", "co", "t", "h", "w", "p"}

Iaqi(present) ==
    LET full == [pm25 |-> Dec(5, 1), pm10 |-> Dec(4, 0), no2 |-> Dec(3, 0),
                 so2 |-> Dec(2, 0), o3 |-> Dec(6, 0), co |-> Dec(1, -1),
                 t |-> Dec(-5, 0), h |-> Dec(8, 1), w |-> Dec(3, 0), p |-> Dec(101, 1)]
    IN  [k \in IaqiKeys |-> IF k \in present THEN full[k] ELSE NULL]

IaqiReadings ==
    {Iaqi(IaqiKeys), Iaqi({"pm10"}), Iaqi({}), [Iaqi({"pm25"}) EXCEPT !.pm25 = Dec(0, 0)]}

LocalTimes == {360, 390, 420}

\* the tz string, as its characters; <<>> when the key is absent
TzStrings == {<<>>, <<"+", "0", "6", ":", "0", "0">>}

AqicnResponses ==
    {[net |-> "error", status |-> "error", iaqi |-> Iaqi({}), s |-> TimeMissing, tz |-> <<>>],
     [net |-> "ok", status |-> "error", iaqi |-> Iaqi({}), s |-> TimeMissing, tz |-> <<>>]}
        \cup {[net |-> "ok", status |-> "ok", iaqi |-> Iaqi(IaqiKeys), s |-> s, tz |-> <<>>] :
                 s \in {TimeMissing, TimeBad}}
        \cup {[net |-> "ok", status |-> "ok", iaqi |-> i, s |-> TimeAt(t), tz |-> tz] :
                 i \in IaqiReadings, t \in LocalTimes, tz \in TzStrings}

Digits == <<"0", "1", "2", "3", "4", "5", "6", "7", "8", "9">>

IsDigit(c) == \E d \in 1..10 : Digits[d] = c

DigitVal(c) == (CHOOSE d \in 1..10 : Digits[d] = c) - 1

\* int(tz_offset[a:a+2]) for a two-digit field; raises ValueError otherwise
IntOk(tz, a) == Len(tz) >= a + 1 /\ IsDigit(tz[a]) /\ IsDigit(tz[a + 1])

IntAt(tz, a) == 10 * DigitVal(tz[a]) + DigitVal(tz[a + 1])

\* the offset applied whatever the sign character is
TzOffsetMinutes_IgnoreSign(tz) == 60 * IntAt(tz, 2) + IntAt(tz, 5)

\* timedelta(hours=hours, minutes=minutes) * sign, in minutes
TzOffsetMinutes(tz) ==
    LET sign == IF tz[1] = "+" THEN 1 ELSE -1
    IN  (60 * IntAt(tz, 2) + IntAt(tz, 5)) * sign

\* dt_utc of fetch_latest_data: a TimeAt, or TimeMissing when it could not be determined
AqicnDtUtc(resp) ==
    IF resp.s.kind = "missing" THEN TimeMissing
    ELSE IF resp.s.kind = "bad" THEN TimeMissing
    ELSE IF resp.tz # <<>>
         THEN IF IntOk(resp.tz, 2) /\ IntOk(resp.tz, 5)
              THEN TimeAt(resp.s.t - TzOffsetMinutes(resp.tz))
              ELSE TimeMissing
         ELSE TimeAt(resp.s.t - 360)

\* "Prepare temporal features" of fetch_latest_data, from dt_utc
AqicnFeatures(dt_utc) ==
    LET month == DateOf(dt_utc).month
        day_of_week == DateOf(dt_utc).weekday
    IN  [hour |-> HourOf(dt_utc), month |-> month, day_of_week |-> day_of_week,
         is_weekend |-> day_of_week >= 5,
         is_heating_season |-> month \in {10, 11, 12, 1, 2, 3, 4},
         season |-> IF month \in {3, 4, 5} THEN "spring"
                    ELSE IF month \in {6, 7, 8} THEN "summer"
                    ELSE IF month \in {9, 10, 11} THEN "autumn"
                    ELSE "winter"]

\* the ten columns and two sources that both statements of fetch_latest_data assign
AqicnSet(u, i) ==
    [u EXCEPT !.pm25 = i.pm25, !.pm10 = i.pm10, !.no2 = i.no2,
              !.o3 = i.o3, !.so2 = i.so2, !.co = i.co,
              !.temperature_c = i.t, !.humidity_pct = i.h,
              !.pressure_hpa = i.p, !.wind_speed_ms = i.w,
              !.pm25_source = "aqicn", !.weather_source = "aqicn"]

\* UPDATE unified_data SET ... WHERE id = %s
AqicnUpdate(table, id, i) == {IF u.id = id THEN AqicnSet(u, i) ELSE u : u \in table}

\* INSERT INTO unified_data (...) VALUES (..., 'aqicn', 'aqicn', 1.0)
AqicnInsert(table, dt_utc, i) ==
    InsertRow(table, WithFeatures([AqicnSet(BlankRow(dt_utc), i) EXCEPT !.completeness_score = 100],
                                  AqicnFeatures(dt_utc)))

\* the write of fetch_latest_data: SELECT id, then UPDATE ... WHERE id, or INSERT
AqicnWrite(table, dt_utc, i) ==
    LET existing == SelectByTimestamp(table, dt_utc)
    IN  IF existing # {}
        THEN AqicnUpdate(table, (CHOOSE u \in existing : TRUE).id, i)
        ELSE AqicnInsert(table, dt_utc, i)

\* where Command.handle of fetch_latest_data goes after the request: to its SELECT
\* or to a return
AqicnExit(resp) ==
    IF resp.net # "ok" \/ resp.status # "ok" THEN "returned"
    ELSE IF AqicnDtUtc(resp).kind # "time" THEN "returned"
    ELSE "select"

\* TRUE when Command.handle of fetch_latest_data reaches its write
AqicnWrites(resp) == AqicnExit(resp) = "select"

fetch_latest_data_handle(resp) ==
    /\ IF AqicnWrites(resp)
       THEN LET dt == AqicnDtUtc(resp).t
            IN  /\ unified_data' = AqicnWrite(unified_data, dt, resp.iaqi)
                /\ lastWriter' = SetWriter(lastWriter, dt, Pollutants, "live")
                /\ liveOverCams' = LiveWrite(liveOverCams, unified_data, dt, resp.iaqi.pm25, "aqicn")
       ELSE UNCHANGED <<unified_data, lastWriter, liveOverCams, procs, call>>
    /\ UNCHANGED <<measurements, weather, rawInput, calendar, aqi, ins, pc, runs, firstRun, handed, procs, call>>

\* ------------------------------------------------ reanalysis (CAMS) files
\* A file is the DataFrame of its dataset: the set of pollutant columns it has and
\* one row per (timestamp, grid point) with a value or NULL (NaN) for each column.
CamsColumns ==
    {"pm2p5", "pm10", "nitrogen_dioxide", "no2", "ozone", "go3",
     "sulphur_dioxide", "so2", "carbon_monoxide", "co"}

LongNames == {"pm2p5", "pm10", "nitrogen_dioxide", "ozone", "sulphur_dioxide", "carbon_monoxide"}

ShortNames == {"pm2p5", "pm10", "no2", "go3", "so2", "co"}

\* raw values in kg/m3
CamsRaw(scale) ==
    [c \in CamsColumns |->
        IF c = "pm2p5" THEN Dec(scale, -8)
        ELSE IF c = "pm10" THEN Dec(2 * scale, -8)
        ELSE IF c \in {"nitrogen_dioxide", "no2"} THEN Dec(3 * scale, -8)
        ELSE IF c \in {"ozone", "go3"} THEN Dec(4 * scale, -8)
        ELSE IF c \in {"sulphur_dioxide", "so2"} THEN Dec(5 * scale, -9)
        ELSE Dec(2 * scale, -7)]

GridRow(ts, point, cols, nulls, scale) ==
    [timestamp_utc |-> ts, point |-> point,
     v |-> [c \in cols |-> IF c \in nulls THEN NULL ELSE CamsRaw(scale)[c]]]

\* the coordinates of the grid points around Astana
GridLatitude(point) ==
    IF point = "A" THEN Dec(51, 0) ELSE IF point = "B" THEN Dec(5125, -2) ELSE Dec(515, -1)

GridLongitude(point) ==
    IF point = "A" THEN Dec(7125, -2) ELSE IF point = "B" THEN Dec(715, -1) ELSE Dec(7175, -2)

CamsFile(cols, rows) == [kind |-> "ok", cols |-> cols, rows |-> rows]

CorruptFile == [kind |-> "corrupt", cols |-> {}, rows |-> <<>>]

CamsTimestamps == {0, 60}

CamsFiles ==
    {CorruptFile}
        \cup {CamsFile(cols, <<GridRow(ts, "A", cols, {}, 1)>>) :
                 cols \in {LongNames, ShortNames}, ts \in CamsTimestamps}
        \cup {CamsFile({"pm2p5", "pm10"}, <<GridRow(0, "A", {"pm2p5", "pm10"}, {"pm2p5"}, 1)>>)}
        \cup {CamsFile({"pm2p5"}, <<GridRow(0, "A", {"pm2p5"}, {}, 1),
                                    GridRow(0, "B", {"pm2p5"}, {}, 2),
                                    GridRow(0, "C", {"pm2p5"}, {}, 3)>>)}
        \cup {CamsFile(LongNames, <<GridRow(0, "A", LongNames, {}, 1),
                                    GridRow(60, "A", LongNames, {}, 3)>>)}

\* -------------------------------------------------------- reprocess_cams
\* param_map of process_file, in its insertion order: (CAMS name, DB column, factor 10^k)
ReprocessParamMap ==
    << <<"pm2p5", "pm25", 9>>, <<"pm10", "pm10", 9>>,
       <<"nitrogen_dioxide", "no2", 9>>, <<"no2", "no2", 9>>,
       <<"ozone", "o3", 9>>, <<"go3", "o3", 9>>,
       <<"sulphur_dioxide", "so2", 9>>, <<"so2", "so2", 9>>,
       <<"carbon_monoxide", "co", 6>>, <<"co", "co", 6>> >>

SeqOfSet(S) == CHOOSE s \in [1..Cardinality(S) -> S] : \A x \in S : \E i \in DOMAIN s : s[i] = x

\* the values of column c in the rows of timestamp ts, in a fixed order
ColumnValues(file, ts, c) ==
    LET idx == {i \in DOMAIN file.rows : file.rows[i].timestamp_utc = ts}
        ord == SeqOfSet(idx)
    IN  [k \in DOMAIN ord |-> file.rows[ord[k]].v[c]]

\* df.groupby('timestamp_utc').mean(numeric_only=True): one row per timestamp
GroupByTimestampMean(file) ==
    LET tss == {file.rows[i].timestamp_utc : i \in DOMAIN file.rows}
    IN  {[timestamp_utc |-> ts,
          v |-> [c \in file.cols |-> Mean(ColumnValues(file, ts, c))]] : ts \in tss}

\* the loop over param_map for one aggregated row: a later entry of the map for
\* the same DB column overwrites what an earlier entry put into the record
RECURSIVE BuildRecord(_, _, _, _)
BuildRecord(row, cols, k, record) ==
    IF k > Len(ReprocessParamMap) THEN record
    ELSE LET cams_col == ReprocessParamMap[k][1]
             db_col == ReprocessParamMap[k][2]
             factor == ReprocessParamMap[k][3]
             found == cams_col \in cols /\ row.v[cams_col] # NULL
         IN  BuildRecord(row, cols, k + 1,
                 [record EXCEPT ![db_col] =
                     IF found THEN DecMulPow10(row.v[cams_col], factor) ELSE NULL,
                                !.has_data = record.has_data \/ found])

EmptyRecord(ts) ==
    [timestamp_utc |-> ts, has_data |-> FALSE,
     pm25 |-> NULL, pm10 |-> NULL, no2 |-> NULL, o3 |-> NULL, so2 |-> NULL, co |-> NULL]

\* records of process_file: the rows handed to bulk_update_db
ProcessFileRecords(file) ==
    LET built == {BuildRecord(row, file.cols, 1, EmptyRecord(row.timestamp_utc)) :
                     row \in GroupByTimestampMean(file)}
    IN  {r \in built : r.has_data}

IsZero(v) == v # NULL /\ v[1] = 0

\* the CASE conditions of update_sql, on the row u as it is before the UPDATE
CamsOverwrites(u, t, slot) ==
    IF slot = "pm25"
    THEN t.pm25 # NULL /\ (u.pm25_source = "cams" \/ u.pm25 = NULL \/ IsZero(u.pm25))
    ELSE t[slot] # NULL /\ (IsZero(u[slot]) \/ u[slot] = NULL \/ u.pm25_source = "cams")

\* UPDATE unified_data u SET ... FROM temp_cams_updates t WHERE u.timestamp_utc = t.timestamp_utc
UpdateRow(u, t) ==
    [u EXCEPT !.pm25 = IF CamsOverwrites(u, t, "pm25") THEN t.pm25 ELSE u.pm25,
              !.pm10 = IF CamsOverwrites(u, t, "pm10") THEN t.pm10 ELSE u.pm10,
              !.no2 = IF CamsOverwrites(u, t, "no2") THEN t.no2 ELSE u.no2,
              !.o3 = IF CamsOverwrites(u, t, "o3") THEN t.o3 ELSE u.o3,
              !.so2 = IF CamsOverwrites(u, t, "so2") THEN t.so2 ELSE u.so2,
              !.co = IF CamsOverwrites(u, t, "co") THEN t.co ELSE u.co,
              !.pm25_source = IF CamsOverwrites(u, t, "pm25") THEN "cams" ELSE u.pm25_source]

\* the UPDATE without its WHERE u.timestamp_utc = t.timestamp_utc
bulk_update_db_every_row(table, records) ==
    {IF records # {} THEN UpdateRow(u, CHOOSE t \in records : TRUE) ELSE u : u \in table}

bulk_update_db(table, records) ==
    {IF \E t \in records : t.timestamp_utc = u.timestamp_utc
     THEN UpdateRow(u, CHOOSE t \in records : t.timestamp_utc = u.timestamp_utc)
     ELSE u : u \in table}

\* the slots bulk_update_db assigns a reanalysis value to
BulkUpdateWriters(table, records, lw) ==
    [ts \in DOMAIN lw |->
        [p \in Pollutants |->
            IF \E u \in table, t \in records :
                  /\ u.timestamp_utc = ts /\ t.timestamp_utc = ts
                  /\ CamsOverwrites(u, t, p)
            THEN "cams" ELSE lw[ts][p]]]

\* process_file; an unreadable file raises and handle() goes on with the next file
process_file(table, file) ==
    IF file.kind = "corrupt" THEN table
    ELSE bulk_update_db(table, ProcessFileRecords(file))

process_file_writers(table, file, lw) ==
    IF file.kind = "corrupt" THEN lw
    ELSE BulkUpdateWriters(table, ProcessFileRecords(file), lw)

\* for f in files: try: self.process_file(f) except ...
RECURSIVE ReprocessAll(_, _)
ReprocessAll(st, files) ==
    IF files = <<>> THEN st
    ELSE ReprocessAll([table |-> process_file(st.table, Head(files)),
                       lw |-> process_file_writers(st.table, Head(files), st.lw)],
                      Tail(files))

reprocess_cams_handle(files) ==
    LET st == ReprocessAll([table |-> unified_data, lw |-> lastWriter], files)
    IN  /\ unified_data' = st.table
        /\ lastWriter' = st.lw
        /\ UNCHANGED <<measurements, weather, liveOverCams, rawInput, calendar, aqi, ins, pc, runs, firstRun, handed, procs, call>>

\* ------------------------------------------------------------------- AQI
\* A concentration with at most two decimals, in hundredths of ug/m3
Hundredths(d) == d[1] * Pow10(d[2] + 2)

\* the integers round() can return for n / d + i_lo (d > 0): the nearest integer, and
\* either neighbour when the exact value lies halfway, where the float product and
\* the half-to-even rule decide
RoundedQuotient(n, d, i_lo) ==
    LET q == n \div d
        r == n % d
    IN  IF 2 * r < d THEN {q + i_lo}
        ELSE IF 2 * r > d THEN {q + 1 + i_lo}
        ELSE {q + i_lo, q + 1 + i_lo}

\* for bp_lo, bp_hi, i_lo, i_hi in breakpoints: ... ; return 500 if pm25 > 500.4 else 0
\* (bps in hundredths of ug/m3)
AqiFromBreakpoints(bps, x) ==
    LET hit == {k \in DOMAIN bps : bps[k][1] <= x /\ x <= bps[k][2]}
    IN  IF hit # {}
        THEN LET b == bps[CHOOSE k \in hit : \A j \in hit : k <= j]
             IN  RoundedQuotient((b[4] - b[3]) * (x - b[1]), b[2] - b[1], b[3])
        ELSE IF x > 50040 THEN {500} ELSE {0}

\* the result of an AQI function: <<index>>, or NULL for None
AqiOf(S) == {<<r>> : r \in S}

\* breakpoints of calculate_aqi
calculate_aqi_breakpoints ==
    << <<0, 1200, 0, 50>>, <<1210, 3540, 51, 100>>, <<3550, 5540, 101, 150>>,
       <<5550, 15040, 151, 200>>, <<15050, 25040, 201, 300>>, <<25050, 50040, 301, 500>> >>

\* calculate_aqi with int() in place of round()
calculate_aqi_truncating(pm25) ==
    IF pm25 = NULL THEN {NULL}
    ELSE LET x == Hundredths(pm25)
             hit == {k \in DOMAIN calculate_aqi_breakpoints :
                        calculate_aqi_breakpoints[k][1] <= x /\ x <= calculate_aqi_breakpoints[k][2]}
         IN  IF hit # {}
             THEN LET b == calculate_aqi_breakpoints[CHOOSE k \in hit : TRUE]
                  IN  {<<((b[4] - b[3]) * (x - b[1])) \div (b[2] - b[1]) + b[3]>>}
             ELSE IF x > 50040 THEN {<<500>>} ELSE {<<0>>}

\* calculate_aqi(pm25): the set of values it can return
calculate_aqi(pm25) ==
    IF pm25 = NULL THEN {NULL}
    ELSE AqiOf(AqiFromBreakpoints(calculate_aqi_breakpoints, Hundredths(pm25)))

\* get_aqi_category(pm25), the same thresholds as UnifiedData.aqi_category
get_aqi_category(pm25) ==
    IF pm25 = NULL THEN "unknown"
    ELSE LET x == Hundredths(pm25)
         IN  IF x <= 1200 THEN "good"
             ELSE IF x <= 3540 THEN "moderate"
             ELSE IF x <= 5540 THEN "unhealthy_sensitive"
             ELSE IF x <= 15040 THEN "unhealthy"
             ELSE IF x <= 25040 THEN "very_unhealthy"
             ELSE "hazardous"

\* breakpoints of UnifiedData.aqi_value
aqi_value_breakpoints ==
    << <<0, 1200, 0, 50>>, <<1210, 3540, 51, 100>>, <<3550, 5540, 101, 150>>,
       <<5550, 15040, 151, 200>>, <<15050, 25040, 201, 300>>, <<25050, 50040, 301, 500>> >>

\* UnifiedData.aqi_value for a record whose pm25 is the given value
aqi_value(pm25) ==
    IF pm25 = NULL THEN {NULL}
    ELSE AqiOf(AqiFromBreakpoints(aqi_value_breakpoints, Hundredths(pm25)))

\* the concentrations the AQI functions are applied to: every 0.05 up to 60, every
\* tenth up to 501, one far above the top band, one negative, and None
AqiInputs ==
    {Norm(<<x, -2>>) : x \in {5 * k : k \in 0..1200} \cup {10 * k : k \in 600..5010}
                                \cup {60000, -100}}
        \cup {NULL}

NoAqi == [pm25 |-> NULL, index |-> NULL, by |-> "idle"]

\* ------------------------------------------------- normalize_data.py (ETL)
CHUNK_SIZE == 5000

AstanaLatitude == Dec(511694, -4)

AstanaLongitude == Dec(714491, -4)

\* insert_dataframe: append df to the table chunk by chunk, each chunk in its own transaction
RECURSIVE insert_dataframe(_, _)
insert_dataframe(table, df) ==
    IF df = <<>> THEN table
    ELSE LET n == MinInt(CHUNK_SIZE, Len(df))
         IN  insert_dataframe(table \o SubSeq(df, 1, n), SubSeq(df, n + 1, Len(df)))

\* chunk = df.iloc[i:i+CHUNK_SIZE], i counted from 0
Chunk_Skipping(df, i) == SubSeq(df, i + 2, MinInt(i + CHUNK_SIZE, Len(df)))

Chunk(df, i) == SubSeq(df, i + 1, MinInt(i + CHUNK_SIZE, Len(df)))

\* one call of insert_dataframe: its DataFrame, the loop index, the rows committed to
\* the table, total, and whether it is running, has returned or was stopped
NoInsert == [df |-> <<>>, i |-> 0, table |-> <<>>, total |-> 0, status |-> "idle"]

\* DataFrames of about 0, 1, ... MaxChunks chunks; a row is its index
InsertLengths ==
    {n \in {k * CHUNK_SIZE + d : k \in 0..MaxChunks, d \in -2..7} : n >= 0}

\* str.lower() on the parameter names that occur in the raw files
Lower(p) == IF p = "PM25" THEN "pm25" ELSE IF p = "PM10" THEN "pm10" ELSE p

RECURSIVE Concat(_)
Concat(files) == IF files = <<>> THEN <<>> ELSE Head(files) \o Concat(Tail(files))

MeasurementKey(r) == <<r.timestamp_utc, r.location, r.parameter, r.data_source>>

\* df.drop_duplicates(subset=[...], keep='first')
DropDuplicatesFirst(df, Key(_)) ==
    LET keep == {i \in DOMAIN df : \A j \in 1..(i - 1) : Key(df[j]) # Key(df[i])}
        F[i \in 0..Len(df)] ==
            IF i = 0 THEN <<>>
            ELSE IF i \in keep THEN Append(F[i - 1], df[i]) ELSE F[i - 1]
    IN  F[Len(df)]

\* df.sort_values('timestamp_utc'): rows of equal timestamp keep their order
RECURSIVE InsertSorted(_, _)
InsertSorted(sorted, r) ==
    IF sorted = <<>> THEN <<r>>
    ELSE IF sorted[Len(sorted)].timestamp_utc <= r.timestamp_utc THEN Append(sorted, r)
    ELSE Append(InsertSorted(SubSeq(sorted, 1, Len(sorted) - 1), r), sorted[Len(sorted)])

SortByTimestamp(df) ==
    LET F[i \in 0..Len(df)] == IF i = 0 THEN <<>> ELSE InsertSorted(F[i - 1], df[i])
    IN  F[Len(df)]

\* a datetime cell whose text pd.to_datetime cannot parse
UnparseableDatetime == -1

\* the read of the CSV files raises: pd.concat of an empty list (no file), or
\* pd.to_datetime on a cell it cannot parse (errors='raise' is the default)
OpenaqReadRaises(files) ==
    \/ files = <<>>
    \/ \E i \in DOMAIN Concat(files) : Concat(files)[i].datetime = UnparseableDatetime

\* one raw OpenAQ CSV row -> the columns transform_openaq selects
OpenaqStandardize(r) ==
    [timestamp_utc |-> r.datetime, location |-> Location,
     latitude |-> AstanaLatitude, longitude |-> AstanaLongitude,
     parameter |-> Lower(r.parameter), value |-> r.value, unit |-> r.units,
     data_source |-> "openaq"]

MapSeq(s, Op(_)) == [i \in DOMAIN s |-> Op(s[i])]

\* transform_openaq without its drop_duplicates
OpenaqDataFrame_NoDedup(files) ==
    LET df == MapSeq(Concat(files), OpenaqStandardize)
        notnull == SelectSeq(df, LAMBDA r : r.value # NULL)
        valid == SelectSeq(notnull, LAMBDA r : r.value[1] >= 0)
    IN  SortByTimestamp(valid)

\* transform_openaq up to the DataFrame handed to insert_dataframe
OpenaqDataFrame(files) ==
    LET df == MapSeq(Concat(files), OpenaqStandardize)
        notnull == SelectSeq(df, LAMBDA r : r.value # NULL)
        valid == SelectSeq(notnull, LAMBDA r : r.value[1] >= 0)
    IN  SortByTimestamp(DropDuplicatesFirst(valid, MeasurementKey))

\* param_map of transform_cams and the pollutant columns it melts
CamsMeltColumns ==
    <<"pm2p5", "pm10", "nitrogen_dioxide", "ozone", "sulphur_dioxide", "carbon_monoxide">>

CamsParameter(c) ==
    IF c = "pm2p5" THEN "pm25"
    ELSE IF c = "nitrogen_dioxide" THEN "no2"
    ELSE IF c = "ozone" THEN "o3"
    ELSE IF c = "sulphur_dioxide" THEN "so2"
    ELSE IF c = "carbon_monoxide" THEN "co"
    ELSE c

\* df.melt(...) of one file, then rename, unit, source and dropna
CamsMelt(file) ==
    LET col(k) == CamsMeltColumns[k]
        part(k) ==
            IF col(k) \in file.cols
            THEN [i \in DOMAIN file.rows |->
                     [timestamp_utc |-> file.rows[i].timestamp_utc, location |-> Location,
                      latitude |-> GridLatitude(file.rows[i].point),
                      longitude |-> GridLongitude(file.rows[i].point),
                      parameter |-> CamsParameter(col(k)),
                      value |-> file.rows[i].v[col(k)],
                      unit |-> "kg/m3", data_source |-> "cams"]]
            ELSE <<>>
        F[k \in 0..Len(CamsMeltColumns)] == IF k = 0 THEN <<>> ELSE F[k - 1] \o part(k)
    IN  SelectSeq(F[Len(CamsMeltColumns)], LAMBDA r : r.value # NULL)

\* the loop over the files: an unreadable file is skipped
RECURSIVE CamsAllData(_)
CamsAllData(files) ==
    IF files = <<>> THEN <<>>
    ELSE (IF Head(files).kind = "corrupt" THEN <<>> ELSE CamsMelt(Head(files)))
             \o CamsAllData(Tail(files))

ParameterOrder == <<"co", "no2", "o3", "pm10", "pm25", "so2">>

\* the aggregation that keeps the mean coordinates of the group
CamsAggregate_Centroid(df) ==
    LET tss == SortByTimestamp([i \in 1..Cardinality({df[j].timestamp_utc : j \in DOMAIN df}) |->
                   [timestamp_utc |-> SeqOfSet({df[j].timestamp_utc : j \in DOMAIN df})[i]]])
        group(ts, p) == SelectSeq(df, LAMBDA r : r.timestamp_utc = ts /\ r.parameter = p)
        row(ts, p) ==
            [timestamp_utc |-> ts, location |-> Location,
             latitude |-> Mean(MapSeq(group(ts, p), LAMBDA r : r.latitude)),
             longitude |-> Mean(MapSeq(group(ts, p), LAMBDA r : r.longitude)),
             parameter |-> p, value |-> Mean(MapSeq(group(ts, p), LAMBDA r : r.value)),
             unit |-> group(ts, p)[1].unit, data_source |-> "cams"]
        ofTs(ts) ==
            LET F[k \in 0..Len(ParameterOrder)] ==
                    IF k = 0 THEN <<>>
                    ELSE IF group(ts, ParameterOrder[k]) = <<>> THEN F[k - 1]
                    ELSE Append(F[k - 1], row(ts, ParameterOrder[k]))
            IN  F[Len(ParameterOrder)]
        G[i \in 0..Len(tss)] == IF i = 0 THEN <<>> ELSE G[i - 1] \o ofTs(tss[i].timestamp_utc)
    IN  G[Len(tss)]

\* df.groupby([timestamp_utc, location, parameter, data_source]).agg(value mean, unit first),
\* one row per group in key order, with the fixed Astana coordinates
CamsAggregate(df) ==
    LET tss == SortByTimestamp([i \in 1..Cardinality({df[j].timestamp_utc : j \in DOMAIN df}) |->
                   [timestamp_utc |-> SeqOfSet({df[j].timestamp_utc : j \in DOMAIN df})[i]]])
        group(ts, p) == SelectSeq(df, LAMBDA r : r.timestamp_utc = ts /\ r.parameter = p)
        row(ts, p) ==
            [timestamp_utc |-> ts, location |-> Location,
             latitude |-> AstanaLatitude, longitude |-> AstanaLongitude,
             parameter |-> p, value |-> Mean(MapSeq(group(ts, p), LAMBDA r : r.value)),
             unit |-> group(ts, p)[1].unit, data_source |-> "cams"]
        ofTs(ts) ==
            LET F[k \in 0..Len(ParameterOrder)] ==
                    IF k = 0 THEN <<>>
                    ELSE IF group(ts, ParameterOrder[k]) = <<>> THEN F[k - 1]
                    ELSE Append(F[k - 1], row(ts, ParameterOrder[k]))
            IN  F[Len(ParameterOrder)]
        G[i \in 0..Len(tss)] == IF i = 0 THEN <<>> ELSE G[i - 1] \o ofTs(tss[i].timestamp_utc)
    IN  G[Len(tss)]

\* transform_cams up to the DataFrame handed to insert_dataframe
CamsDataFrame(files) ==
    SortByTimestamp(DropDuplicatesFirst(CamsAggregate(CamsAllData(files)), MeasurementKey))

WeatherKey(r) == <<r.timestamp_utc, r.location, r.data_source>>

\* one raw Open-Meteo CSV row -> a weather row: local time - 6 h, renamed columns
WeatherStandardize(r) ==
    [timestamp_utc |-> r.time - 360, location |-> Location,
     temperature_c |-> r.temp_c, humidity_pct |-> r.humidity_pct,
     surface_pressure_hpa |-> r.surface_pressure_hpa, wind_speed_ms |-> r.wind_speed_ms,
     wind_direction_deg |-> r.wind_dir_deg, precipitation_mm |-> r.precip_mm,
     cloud_cover_pct |-> r.cloud_cover_pct, data_source |-> "open-meteo"]

\* transform_weather up to the DataFrame handed to insert_dataframe
WeatherDataFrame(files) ==
    SortByTimestamp(DropDuplicatesFirst(MapSeq(Concat(files), WeatherStandardize), WeatherKey))

\* ---------------------------------------------------- create_unified_data
SourceOrder == <<"cams", "open-meteo", "openaq">>

SourceRank(src) == CHOOSE k \in DOMAIN SourceOrder : SourceOrder[k] = src

\* MAX(data_source)
MaxSource(S) == CHOOSE src \in S : \A o \in S : SourceRank(o) <= SourceRank(src)

HoursOf(rows) == {TruncHour(rows[i].timestamp_utc) : i \in DOMAIN rows}

\* hourly_measurements: the rows of one (hour, parameter) group
HourGroup(meas, h, p) ==
    SelectSeq(meas, LAMBDA r : TruncHour(r.timestamp_utc) = h /\ r.parameter = p)

\* the average taken over the rows of the group's MAX(data_source) only
HourlyValue_OneSource(meas, h, p) ==
    LET g == HourGroup(meas, h, p)
        src == MaxSource({g[i].data_source : i \in DOMAIN g})
    IN  IF g = <<>> THEN NULL
        ELSE Mean(MapSeq(SelectSeq(g, LAMBDA r : r.data_source = src), LAMBDA r : r.value))

\* AVG(value) of the group, pivoted: NULL when the hour has no row of the parameter
HourlyValue(meas, h, p) == Mean(MapSeq(HourGroup(meas, h, p), LAMBDA r : r.value))

HourlySource(meas, h, p) ==
    LET g == HourGroup(meas, h, p)
    IN  IF g = <<>> THEN NoSource ELSE MaxSource({g[i].data_source : i \in DOMAIN g})

HourWeather(wth, h) == SelectSeq(wth, LAMBDA r : TruncHour(r.timestamp_utc) = h)

Weight(v, w) == IF v # NULL THEN w ELSE 0

\* the score with the weights of wind speed and pressure exchanged
CompletenessScore_SwappedWeights(u) ==
    Weight(u.pm25, 30) + Weight(u.temperature_c, 20) + Weight(u.humidity_pct, 15)
        + Weight(u.wind_speed_ms, 10) + Weight(u.pressure_hpa, 15) + Weight(u.pm10, 10)

\* the completeness score in hundredths: ROUND(0.3.. + 0.2.. + 0.15.. + 0.15.. + 0.1.. + 0.1.., 2)
CompletenessScore(u) ==
    Weight(u.pm25, 30) + Weight(u.temperature_c, 20) + Weight(u.humidity_pct, 15)
        + Weight(u.wind_speed_ms, 15) + Weight(u.pressure_hpa, 10) + Weight(u.pm10, 10)

\* EXTRACT(DOW FROM ...): Sunday = 0 ... Saturday = 6
Dow(ts) == (DateOf(ts).weekday + 1) % 7

\* the temporal features with is_weekend taken from DOW IN (5, 6)
JoinFeatures_DowAsWeekday(ts) ==
    LET month == DateOf(ts).month
    IN  [hour |-> HourOf(ts), month |-> month, day_of_week |-> Dow(ts),
         is_weekend |-> Dow(ts) \in {5, 6},
         is_heating_season |-> month \in {10, 11, 12, 1, 2, 3, 4},
         season |-> IF month \in {12, 1, 2} THEN "winter"
                    ELSE IF month \in {3, 4, 5} THEN "spring"
                    ELSE IF month \in {6, 7, 8} THEN "summer"
                    ELSE "autumn"]

\* the temporal features of the query, from COALESCE(m.timestamp_utc, w.timestamp_utc)
JoinFeatures(ts) ==
    LET month == DateOf(ts).month
    IN  [hour |-> HourOf(ts), month |-> month, day_of_week |-> Dow(ts),
         is_weekend |-> Dow(ts) \in {0, 6},
         is_heating_season |-> month \in {10, 11, 12, 1, 2, 3, 4},
         season |-> IF month \in {12, 1, 2} THEN "winter"
                    ELSE IF month \in {3, 4, 5} THEN "spring"
                    ELSE IF month \in {6, 7, 8} THEN "summer"
                    ELSE "autumn"]

\* one row of the FULL OUTER JOIN of pivoted_measurements and hourly_weather
JoinRow(meas, wth, h) ==
    LET w == HourWeather(wth, h)
        col(Get(_)) == Mean(MapSeq(w, Get))
        u == [BlankRow(h) EXCEPT
                !.pm25 = HourlyValue(meas, h, "pm25"), !.pm10 = HourlyValue(meas, h, "pm10"),
                !.no2 = HourlyValue(meas, h, "no2"), !.o3 = HourlyValue(meas, h, "o3"),
                !.so2 = HourlyValue(meas, h, "so2"), !.co = HourlyValue(meas, h, "co"),
                !.temperature_c = col(LAMBDA r : r.temperature_c),
                !.humidity_pct = col(LAMBDA r : r.humidity_pct),
                !.pressure_hpa = col(LAMBDA r : r.surface_pressure_hpa),
                !.wind_speed_ms = col(LAMBDA r : r.wind_speed_ms),
                !.wind_direction_deg = col(LAMBDA r : r.wind_direction_deg),
                !.precipitation_mm = col(LAMBDA r : r.precipitation_mm),
                !.cloud_cover_pct = col(LAMBDA r : r.cloud_cover_pct),
                !.pm25_source = HourlySource(meas, h, "pm25"),
                !.weather_source =
                    IF w = <<>> THEN NoSource
                    ELSE MaxSource({w[i].data_source : i \in DOMAIN w})]
    IN  WithFeatures([u EXCEPT !.completeness_score = CompletenessScore(u)], JoinFeatures(h))

\* the query with a LEFT JOIN in place of the FULL OUTER JOIN
UnifiedDataFrame_LeftJoin(meas, wth) ==
    LET hours == HoursOf(meas)
        rows == SeqOfSet({JoinRow(meas, wth, h) : h \in hours})
    IN  SortByTimestamp(rows)

\* the result of the query, ORDER BY timestamp
UnifiedDataFrame(meas, wth) ==
    LET hours == HoursOf(meas) \cup HoursOf(wth)
        rows == SeqOfSet({JoinRow(meas, wth, h) : h \in hours})
    IN  SortByTimestamp(rows)

RangeOf(s) == {s[i] : i \in DOMAIN s}

\* the rows of df inserted into unified_data one after the other
RECURSIVE InsertRows(_, _)
InsertRows(table, df) ==
    IF df = <<>> THEN table ELSE InsertRows(InsertRow(table, Head(df)), Tail(df))

\* the pollutant slots the join fills
JoinWriters(table) ==
    [ts \in Timestamps |->
        [p \in Pollutants |->
            IF \E u \in table : u.timestamp_utc = ts /\ u[p] # NULL THEN "join" ELSE "none"]]

\* --------------------------------------------------------- raw input files
OpenaqRawRows ==
    {[datetime |-> 0, parameter |-> "pm25", value |-> Dec(7, 0), units |-> "ug/m3"],
     [datetime |-> 0, parameter |-> "pm25", value |-> Dec(9, 0), units |-> "ug/m3"],
     [datetime |-> 30, parameter |-> "PM25", value |-> Dec(9, 0), units |-> "ug/m3"],
     [datetime |-> 0, parameter |-> "PM10", value |-> Dec(7, 0), units |-> "ug/m3"],
     [datetime |-> 0, parameter |-> "pm25", value |-> Dec(-999, 0), units |-> "ug/m3"],
     [datetime |-> 60, parameter |-> "pm25", value |-> NULL, units |-> "ug/m3"],
     [datetime |-> UnparseableDatetime, parameter |-> "pm25", value |-> Dec(7, 0),
      units |-> "ug/m3"]}

WeatherRaw(time, cols, scale) ==
    LET val(c, v) == IF c \in cols THEN v ELSE NULL
    IN  [time |-> time, temp_c |-> val("temp_c", Dec(-5 * scale, 0)),
         humidity_pct |-> val("humidity_pct", Dec(8, 1)),
         surface_pressure_hpa |-> val("surface_pressure_hpa", Dec(101, 1)),
         wind_speed_ms |-> val("wind_speed_ms", Dec(3, 0)),
         wind_dir_deg |-> val("wind_dir_deg", Dec(18, 1)),
         precip_mm |-> val("precip_mm", Dec(0, 0)),
         cloud_cover_pct |-> val("cloud_cover_pct", Dec(5, 1))]

WeatherColumns ==
    {"temp_c", "humidity_pct", "surface_pressure_hpa", "wind_speed_ms",
     "wind_dir_deg", "precip_mm", "cloud_cover_pct"}

WeatherRawRows ==
    {WeatherRaw(360, WeatherColumns, 1),
     WeatherRaw(360, {"temp_c", "surface_pressure_hpa"}, 3),
     WeatherRaw(390, WeatherColumns, 3)}

\* the files that glob finds, in the order glob returns them
FileLists(Rows, n) ==
    {<<>>} \cup {<<f>> : f \in SeqsUpTo(Rows, n)}
        \cup {<<f, g>> : f \in [1..1 -> Rows], g \in SeqsUpTo(Rows, n - 1)}

RowCount(files) == Len(Concat(files))

RawInputs(n) ==
    {raw \in [openaq : FileLists(OpenaqRawRows, n),
              cams : SeqsUpTo(CamsFiles, MaxFiles),
              weather : FileLists(WeatherRawRows, n)] :
        RowCount(raw.openaq) + Len(raw.cams) + RowCount(raw.weather) <= n}

NoRawInput == [openaq |-> <<>>, cams |-> <<>>, weather |-> <<>>]

\* the raw files main() finds when it is run between the incremental commands
MainInputs ==
    {NoRawInput,
     [openaq |-> <<<<>>>>, cams |-> <<>>, weather |-> <<<<WeatherRaw(360, WeatherColumns, 1)>>>>],
     [openaq |-> << <<[datetime |-> 0, parameter |-> "pm25", value |-> Dec(7, 0), units |-> "ug/m3"],
                      [datetime |-> 30, parameter |-> "PM10", value |-> Dec(0, 0), units |-> "ug/m3"]>> >>,
      cams |-> <<>>, weather |-> <<<<>>>>],
     [openaq |-> <<<<>>>>,
      cams |-> <<CamsFile(LongNames, <<GridRow(60, "A", LongNames, {}, 1)>>)>>,
      weather |-> <<<<WeatherRaw(420, {"temp_c"}, 3)>>>>]}

\* ------------------------------------------------- the steps of main()
MaxRuns == 2

\* a schema script that creates the tables only when they are missing and keeps their rows
create_normalized_schema_keep ==
    /\ pc = "main"
    /\ pc' = "transform_openaq"
    /\ UNCHANGED <<unified_data, measurements, weather, lastWriter, liveOverCams,
                   rawInput, calendar, aqi, ins, runs, firstRun, handed, ops, procs, call>>

\* create_normalized_schema: the three tables are rebuilt, unified_data with
\* (timestamp_utc, location) as its key
create_normalized_schema ==
    /\ pc = "main"
    /\ measurements' = <<>>
    /\ weather' = <<>>
    /\ unified_data' = {}
    /\ lastWriter' = [ts \in Timestamps |-> NoWriter]
    /\ liveOverCams' = [ts \in Timestamps |-> <<>>]
    /\ pc' = "transform_openaq"
    /\ UNCHANGED <<rawInput, calendar, aqi, ins, runs, firstRun, handed, ops, procs, call>>

\* main() stops here: the run is over, with the tables as they are
EndRun(table) ==
    /\ runs' = runs + 1
    /\ firstRun' = IF runs = 0 THEN table ELSE firstRun

\* an exception while the CSV files are read ends the run: main() catches nothing
transform_openaq ==
    /\ pc = "transform_openaq"
    /\ IF OpenaqReadRaises(rawInput.openaq)
       THEN /\ pc' = "failed"
            /\ EndRun(unified_data)
            /\ UNCHANGED <<measurements, handed, procs, call>>
       ELSE /\ handed' = OpenaqDataFrame(rawInput.openaq)
            /\ measurements' = insert_dataframe(measurements, handed')
            /\ pc' = "transform_cams"
            /\ UNCHANGED <<runs, firstRun, procs, call>>
    /\ UNCHANGED <<unified_data, weather, lastWriter, liveOverCams, rawInput, calendar, aqi, ins, ops, procs, call>>

transform_cams ==
    /\ pc = "transform_cams"
    /\ IF CamsAllData(rawInput.cams) # <<>>
       THEN /\ handed' = CamsDataFrame(rawInput.cams)
            /\ measurements' = insert_dataframe(measurements, handed')
       ELSE UNCHANGED <<measurements, handed, procs, call>>
    /\ pc' = "transform_weather"
    /\ UNCHANGED <<unified_data, weather, lastWriter, liveOverCams, rawInput, calendar, aqi, ins, runs, firstRun, ops, procs, call>>

transform_weather ==
    /\ pc = "transform_weather"
    /\ IF rawInput.weather = <<>>
       THEN /\ pc' = "failed"
            /\ EndRun(unified_data)
            /\ UNCHANGED <<weather, handed, procs, call>>
       ELSE /\ handed' = WeatherDataFrame(rawInput.weather)
            /\ weather' = insert_dataframe(weather, handed')
            /\ pc' = "create_unified_data"
            /\ UNCHANGED <<runs, firstRun, procs, call>>
    /\ UNCHANGED <<unified_data, measurements, lastWriter, liveOverCams, rawInput, calendar, aqi, ins, ops, procs, call>>

create_unified_data ==
    /\ pc = "create_unified_data"
    /\ handed' = UnifiedDataFrame(measurements, weather)
    /\ unified_data' = InsertRows(unified_data, insert_dataframe(<<>>, handed'))
    /\ lastWriter' = JoinWriters(unified_data')
    /\ pc' = "done"
    /\ EndRun(unified_data')
    /\ UNCHANGED <<measurements, weather, liveOverCams, rawInput, calendar, aqi, ins, ops, procs, call>>

\* the pipeline is started again over the same raw files
run_again ==
    /\ pc \in {"done", "failed"}
    /\ runs < MaxRuns
    /\ pc' = "main"
    /\ UNCHANGED <<unified_data, measurements, weather, lastWriter, liveOverCams,
                   rawInput, calendar, aqi, ins, runs, firstRun, handed, ops, procs, call>>

\* main() as one step: the tables it leaves behind for the raw files it finds
MainTables(raw) ==
    LET m1 == insert_dataframe(<<>>, OpenaqDataFrame(raw.openaq))
        m2 == IF CamsAllData(raw.cams) # <<>>
              THEN insert_dataframe(m1, CamsDataFrame(raw.cams)) ELSE m1
        w == insert_dataframe(<<>>, WeatherDataFrame(raw.weather))
    IN  IF OpenaqReadRaises(raw.openaq) THEN [measurements |-> <<>>, weather |-> <<>>, unified_data |-> {}]
        ELSE IF raw.weather = <<>> THEN [measurements |-> m2, weather |-> <<>>, unified_data |-> {}]
        ELSE [measurements |-> m2, weather |-> w,
              unified_data |-> InsertRows({}, insert_dataframe(<<>>, UnifiedDataFrame(m2, w)))]

\* the last DataFrame main() hands to insert_dataframe
MainHanded(raw) ==
    IF OpenaqReadRaises(raw.openaq) THEN handed
    ELSE IF raw.weather = <<>>
         THEN (IF CamsAllData(raw.cams) # <<>> THEN CamsDataFrame(raw.cams)
               ELSE OpenaqDataFrame(raw.openaq))
    ELSE UnifiedDataFrame(MainTables(raw).measurements, MainTables(raw).weather)

main(raw) ==
    /\ measurements' = MainTables(raw).measurements
    /\ weather' = MainTables(raw).weather
    /\ unified_data' = MainTables(raw).unified_data
    /\ lastWriter' = JoinWriters(unified_data')
    /\ liveOverCams' = [ts \in Timestamps |-> <<>>]
    /\ handed' = MainHanded(raw)
    /\ UNCHANGED <<rawInput, calendar, aqi, ins, pc, runs, firstRun, procs, call>>

\* --------------------------------------------- commands run concurrently
\* Django runs a management command in autocommit mode: every cursor.execute is a
\* transaction of its own, so two commands interleave statement by statement.
NoProcs == <<>>

\* the conversion that is applied to one input, and what it gave
NoCall == [op |-> "idle"]

Proc(cmd, input) == [cmd |-> cmd, input |-> input, pc |-> "request", existing |-> <<>>]

\* dt_utc of a live command that got past its checks
ProcDtUtc(pr) ==
    IF pr.cmd = "fetch_openaq" THEN LatestMeasurement(pr.input.results).utc.t
    ELSE AqicnDtUtc(pr.input).t

\* requests.get(...), response.json() and the checks up to "Insert into DB"
Request(p) ==
    /\ procs[p].cmd \in {"fetch_openaq", "fetch_latest_data"}
    /\ procs[p].pc = "request"
    /\ procs' = [procs EXCEPT ![p].pc = IF procs[p].cmd = "fetch_openaq"
                                       THEN OpenaqExit(procs[p].input)
                                       ELSE AqicnExit(procs[p].input)]
    /\ UNCHANGED <<unified_data, measurements, weather, lastWriter, liveOverCams,
                   rawInput, pc, runs, firstRun, handed, ops, calendar, aqi, ins, call>>

\* cursor.execute("SELECT id FROM unified_data WHERE timestamp_utc = %s"); fetchone()
Select(p) ==
    /\ procs[p].pc = "select"
    /\ LET found == SelectByTimestamp(unified_data, ProcDtUtc(procs[p]))
       IN  procs' = [procs EXCEPT ![p].pc = "write",
                                  ![p].existing = IF found = {} THEN <<>>
                                                  ELSE <<(CHOOSE u \in found : TRUE).id>>]
    /\ UNCHANGED <<unified_data, measurements, weather, lastWriter, liveOverCams,
                   rawInput, pc, runs, firstRun, handed, ops, calendar, aqi, ins, call>>

\* if existing: UPDATE ... WHERE id
Update(p) ==
    /\ procs[p].pc = "write"
    /\ procs[p].existing # <<>>
    /\ unified_data' =
          IF procs[p].cmd = "fetch_openaq"
          THEN OpenaqUpdate(unified_data, procs[p].existing[1],
                            LatestMeasurement(procs[p].input.results).value)
          ELSE AqicnUpdate(unified_data, procs[p].existing[1], procs[p].input.iaqi)
    /\ procs' = [procs EXCEPT ![p].pc = "done"]
    /\ UNCHANGED <<measurements, weather, lastWriter, liveOverCams,
                   rawInput, pc, runs, firstRun, handed, ops, calendar, aqi, ins, call>>

\* else: INSERT. The schema of unified_data is created outside these commands: when
\* another command has inserted a row for this timestamp since the SELECT, either a key
\* on the timestamp rejects the row and execute raises, or there is no such key and the
\* row is added
Insert(p) ==
    /\ procs[p].pc = "write"
    /\ procs[p].existing = <<>>
    /\ \/ /\ SelectByTimestamp(unified_data, ProcDtUtc(procs[p])) # {}
          /\ procs' = [procs EXCEPT ![p].pc = "raised"]
          /\ UNCHANGED unified_data
       \/ /\ unified_data' =
                IF procs[p].cmd = "fetch_openaq"
                THEN OpenaqInsert(unified_data, ProcDtUtc(procs[p]),
                                  LatestMeasurement(procs[p].input.results).value)
                ELSE AqicnInsert(unified_data, ProcDtUtc(procs[p]), procs[p].input.iaqi)
          /\ procs' = [procs EXCEPT ![p].pc = "done"]
    /\ UNCHANGED <<measurements, weather, lastWriter, liveOverCams,
                   rawInput, pc, runs, firstRun, handed, ops, calendar, aqi, ins, call>>

\* reprocess_cams on one file: the UPDATE ... FROM temp_cams_updates is one statement
BulkUpdate(p) ==
    /\ procs[p].cmd = "reprocess_cams"
    /\ procs[p].pc = "request"
    /\ unified_data' = process_file(unified_data, procs[p].input)
    /\ procs' = [procs EXCEPT ![p].pc = "done"]
    /\ UNCHANGED <<measurements, weather, lastWriter, liveOverCams,
                   rawInput, pc, runs, firstRun, handed, ops, calendar, aqi, ins, call>>

\* ------------------------------------------------------- specifications
\* the database driven by the commands, each command one step
Init ==
    /\ unified_data = {}
    /\ measurements = <<>>
    /\ weather = <<>>
    /\ lastWriter = [ts \in Timestamps |-> NoWriter]
    /\ liveOverCams = [ts \in Timestamps |-> <<>>]
    /\ rawInput = NoRawInput
    /\ pc = "idle"
    /\ runs = 0
    /\ firstRun = {}
    /\ handed = <<>>
    /\ ops = 0
    /\ calendar = DefaultCalendar
    /\ aqi = NoAqi
    /\ ins = NoInsert
    /\ procs = NoProcs
    /\ call = NoCall

\* one more command is run, while the budget of commands lasts
Tick == ops < MaxOps /\ ops' = ops + 1

FetchOpenaq == Tick /\ \E resp \in OpenaqResponses : fetch_openaq_handle(resp)

FetchLatestData == Tick /\ \E resp \in AqicnResponses : fetch_latest_data_handle(resp)

ReprocessCams == Tick /\ \E files \in SeqsUpTo(CamsFiles, MaxFiles) : reprocess_cams_handle(files)

Main == Tick /\ \E raw \in MainInputs : main(raw)

Next == FetchOpenaq \/ FetchLatestData \/ ReprocessCams \/ Main

Spec == Init /\ [][Next]_vars

\* one set of raw files, the pipeline run over it step by step and then once more
InitPipeline ==
    /\ unified_data = {}
    /\ measurements = <<>>
    /\ weather = <<>>
    /\ lastWriter = [ts \in Timestamps |-> NoWriter]
    /\ liveOverCams = [ts \in Timestamps |-> <<>>]
    /\ rawInput \in RawInputs(MaxRows)
    /\ pc = "main"
    /\ runs = 0
    /\ firstRun = {}
    /\ handed = <<>>
    /\ ops = 0
    /\ calendar = DefaultCalendar
    /\ aqi = NoAqi
    /\ ins = NoInsert
    /\ procs = NoProcs
    /\ call = NoCall

NextPipeline ==
    \/ create_normalized_schema
    \/ transform_openaq
    \/ transform_cams
    \/ transform_weather
    \/ create_unified_data
    \/ run_again

SpecPipeline == InitPipeline /\ [][NextPipeline]_vars

\* the commands run on any date: CalendarOps commands from an empty database
InitCalendar ==
    /\ unified_data = {}
    /\ measurements = <<>>
    /\ weather = <<>>
    /\ lastWriter = [ts \in Timestamps |-> NoWriter]
    /\ liveOverCams = [ts \in Timestamps |-> <<>>]
    /\ rawInput = NoRawInput
    /\ pc = "idle"
    /\ runs = 0
    /\ firstRun = {}
    /\ handed = <<>>
    /\ ops = MaxOps - CalendarOps
    /\ calendar \in Calendars
    /\ aqi = NoAqi
    /\ ins = NoInsert
    /\ procs = NoProcs
    /\ call = NoCall

SpecCalendar == InitCalendar /\ [][Next]_vars

\* the AQI functions applied to one concentration
InitAqi ==
    /\ unified_data = {}
    /\ measurements = <<>>
    /\ weather = <<>>
    /\ lastWriter = [ts \in Timestamps |-> NoWriter]
    /\ liveOverCams = [ts \in Timestamps |-> <<>>]
    /\ rawInput = NoRawInput
    /\ pc = "idle"
    /\ runs = 0
    /\ firstRun = {}
    /\ handed = <<>>
    /\ ops = 0
    /\ calendar = DefaultCalendar
    /\ \E pm25 \in AqiInputs : aqi = [pm25 |-> pm25, index |-> NULL, by |-> "input"]
    /\ ins = NoInsert
    /\ procs = NoProcs
    /\ call = NoCall

CalculateAqi ==
    /\ aqi.by = "input"
    /\ \E r \in calculate_aqi(aqi.pm25) : aqi' = [aqi EXCEPT !.index = r, !.by = "calculate_aqi"]
    /\ UNCHANGED <<unified_data, measurements, weather, lastWriter, liveOverCams,
                   rawInput, pc, runs, firstRun, handed, ops, calendar, ins, procs, call>>

AqiValue ==
    /\ aqi.by = "input"
    /\ \E r \in aqi_value(aqi.pm25) : aqi' = [aqi EXCEPT !.index = r, !.by = "aqi_value"]
    /\ UNCHANGED <<unified_data, measurements, weather, lastWriter, liveOverCams,
                   rawInput, pc, runs, firstRun, handed, ops, calendar, ins, procs, call>>

NextAqi == CalculateAqi \/ AqiValue

\* insert_dataframe run chunk by chunk on one DataFrame
InitInsert ==
    /\ unified_data = {}
    /\ measurements = <<>>
    /\ weather = <<>>
    /\ lastWriter = [ts \in Timestamps |-> NoWriter]
    /\ liveOverCams = [ts \in Timestamps |-> <<>>]
    /\ rawInput = NoRawInput
    /\ pc = "idle"
    /\ runs = 0
    /\ firstRun = {}
    /\ handed = <<>>
    /\ ops = 0
    /\ calendar = DefaultCalendar
    /\ aqi = NoAqi
    /\ \E n \in InsertLengths :
          ins = [df |-> [k \in 1..n |-> k], i |-> 0, table |-> <<>>, total |-> 0,
                 status |-> "running"]
    /\ procs = NoProcs
    /\ call = NoCall

\* one pass of the loop body: with engine.begin() commits the chunk, total += len(chunk)
InsertChunk ==
    /\ ins.status = "running"
    /\ ins.i < Len(ins.df)
    /\ ins' = [ins EXCEPT !.table = ins.table \o Chunk(ins.df, ins.i),
                          !.total = ins.total + Len(Chunk(ins.df, ins.i)),
                          !.i = ins.i + CHUNK_SIZE]
    /\ UNCHANGED <<unified_data, measurements, weather, lastWriter, liveOverCams,
                   rawInput, pc, runs, firstRun, handed, ops, calendar, aqi, procs, call>>

\* to_sql raises or the process stops inside the transaction: the chunk is rolled
\* back and the exception leaves insert_dataframe
ChunkFails ==
    /\ ins.status = "running"
    /\ ins.i < Len(ins.df)
    /\ ins' = [ins EXCEPT !.status = "failed"]
    /\ UNCHANGED <<unified_data, measurements, weather, lastWriter, liveOverCams,
                   rawInput, pc, runs, firstRun, handed, ops, calendar, aqi, procs, call>>

\* range(0, len(df), CHUNK_SIZE) is exhausted: return total
InsertReturn ==
    /\ ins.status = "running"
    /\ ins.i >= Len(ins.df)
    /\ ins' = [ins EXCEPT !.status = "done"]
    /\ UNCHANGED <<unified_data, measurements, weather, lastWriter, liveOverCams,
                   rawInput, pc, runs, firstRun, handed, ops, calendar, aqi, procs, call>>

NextInsert == InsertChunk \/ ChunkFails \/ InsertReturn

SpecInsert == InitInsert /\ [][NextInsert]_vars

SpecAqi == InitAqi /\ [][NextAqi]_vars

\* ---------------------------------------------- conversions of local time
OffsetHours == {0, 5, 6, 12}

OffsetMinutes == {0, 30, 45}

\* the text "+HH:MM" or "-HH:MM" of an offset of sign * (60 * hh + mm) minutes
TzString(sign, hh, mm) ==
    <<IF sign = 1 THEN "+" ELSE "-", Digits[(hh \div 10) + 1], Digits[(hh % 10) + 1], ":",
      Digits[(mm \div 10) + 1], Digits[(mm % 10) + 1]>>

\* a feed response of fetch_latest_data with local time s and the tz text
TimedResponse(s, tz) ==
    [net |-> "ok", status |-> "ok", iaqi |-> Iaqi({"pm25"}), s |-> TimeAt(s), tz |-> tz]

\* the records whose local time is converted: feed responses with an offset text, with
\* none, with one that is not of the form, and rows of the weather archive
InitOffset ==
    /\ unified_data = {}
    /\ measurements = <<>>
    /\ weather = <<>>
    /\ lastWriter = [ts \in Timestamps |-> NoWriter]
    /\ liveOverCams = [ts \in Timestamps |-> <<>>]
    /\ rawInput = NoRawInput
    /\ pc = "idle"
    /\ runs = 0
    /\ firstRun = {}
    /\ handed = <<>>
    /\ ops = 0
    /\ calendar = DefaultCalendar
    /\ aqi = NoAqi
    /\ ins = NoInsert
    /\ procs = NoProcs
    /\ \/ \E s \in LocalTimes, sign \in {1, -1}, hh \in OffsetHours, mm \in OffsetMinutes :
             call = [op |-> "feed", local |-> s, offset |-> sign * (60 * hh + mm),
                     tz |-> TzString(sign, hh, mm)]
       \/ \E s \in LocalTimes, tz \in {<<>>, <<"+", "6">>, <<"U", "T", "C", "+", "0", "6">>} :
             call = [op |-> "feed", local |-> s, offset |-> 360, tz |-> tz]
       \/ \E s \in LocalTimes, cols \in {WeatherColumns, {"temp_c"}} :
             call = [op |-> "archive", local |-> s, offset |-> 360,
                     row |-> WeatherRaw(s, cols, 1)]

\* fetch_latest_data works dt_utc out of time.s and time.tz
ConvertFeed ==
    /\ call.op = "feed"
    /\ call' = [op |-> "fetch_latest_data", local |-> call.local, offset |-> call.offset,
                tz |-> call.tz, dt_utc |-> AqicnDtUtc(TimedResponse(call.local, call.tz))]
    /\ UNCHANGED <<unified_data, measurements, weather, lastWriter, liveOverCams,
                   rawInput, pc, runs, firstRun, handed, ops, calendar, aqi, ins, procs>>

\* transform_weather works timestamp_utc out of the row's time
ConvertArchive ==
    /\ call.op = "archive"
    /\ call' = [op |-> "transform_weather", local |-> call.local, offset |-> call.offset,
                dt_utc |-> TimeAt(WeatherStandardize(call.row).timestamp_utc)]
    /\ UNCHANGED <<unified_data, measurements, weather, lastWriter, liveOverCams,
                   rawInput, pc, runs, firstRun, handed, ops, calendar, aqi, ins, procs>>

NextOffset == ConvertFeed \/ ConvertArchive

SpecOffset == InitOffset /\ [][NextOffset]_vars

\* -------------------------------------------- process_file on one dataset
\* datasets of one grid point and one timestamp: with the long names, the short names
\* or both, with some of the columns all NaN
ProcessFileInputs ==
    CamsFiles
        \cup {CamsFile(cols, <<GridRow(ts, "A", cols, nulls \cap cols, scale)>>) :
                 cols \in {LongNames, ShortNames, LongNames \cup ShortNames,
                           {"pm2p5", "ozone"}, {"pm10", "go3", "co"}},
                 nulls \in {{}, {"pm2p5"}, {"ozone", "so2"}, {"no2", "go3", "co"},
                            {"nitrogen_dioxide", "carbon_monoxide"}},
                 ts \in CamsTimestamps, scale \in {1, 3}}

InitProcessFile ==
    /\ unified_data = {}
    /\ measurements = <<>>
    /\ weather = <<>>
    /\ lastWriter = [ts \in Timestamps |-> NoWriter]
    /\ liveOverCams = [ts \in Timestamps |-> <<>>]
    /\ rawInput = NoRawInput
    /\ pc = "idle"
    /\ runs = 0
    /\ firstRun = {}
    /\ handed = <<>>
    /\ ops = 0
    /\ calendar = DefaultCalendar
    /\ aqi = NoAqi
    /\ ins = NoInsert
    /\ procs = NoProcs
    /\ \E file \in ProcessFileInputs : call = [op |-> "dataset", file |-> file]

\* process_file builds the records that it passes to bulk_update_db
BuildRecords ==
    /\ call.op = "dataset"
    /\ call.file.kind # "corrupt"
    /\ call' = [op |-> "process_file", file |-> call.file,
                records |-> ProcessFileRecords(call.file)]
    /\ UNCHANGED <<unified_data, measurements, weather, lastWriter, liveOverCams,
                   rawInput, pc, runs, firstRun, handed, ops, calendar, aqi, ins, procs>>

\* zipfile.ZipFile or xr.open_dataset raises on an unreadable file
OpenRaises ==
    /\ call.op = "dataset"
    /\ call.file.kind = "corrupt"
    /\ call' = [op |-> "raised", file |-> call.file, records |-> {}]
    /\ UNCHANGED <<unified_data, measurements, weather, lastWriter, liveOverCams,
                   rawInput, pc, runs, firstRun, handed, ops, calendar, aqi, ins, procs>>

NextProcessFile == BuildRecords \/ OpenRaises

SpecProcessFile == InitProcessFile /\ [][NextProcessFile]_vars

\* two different incremental commands started together on a table that main() left
ProcPairs ==
    {<<Proc("fetch_openaq", a), Proc("fetch_latest_data", b)>> :
        a \in OpenaqResponses, b \in AqicnResponses}
    \cup {<<Proc("fetch_openaq", a), Proc("reprocess_cams", f)>> :
        a \in OpenaqResponses, f \in CamsFiles}
    \cup {<<Proc("fetch_latest_data", b), Proc("reprocess_cams", f)>> :
        b \in AqicnResponses, f \in CamsFiles}

InitInterleaved ==
    /\ calendar = DefaultCalendar
    /\ handed = <<>>
    /\ \E raw \in MainInputs : unified_data = MainTables(raw).unified_data
    /\ firstRun = unified_data
    /\ measurements = <<>>
    /\ weather = <<>>
    /\ lastWriter = [ts \in Timestamps |-> NoWriter]
    /\ liveOverCams = [ts \in Timestamps |-> <<>>]
    /\ rawInput = NoRawInput
    /\ pc = "idle"
    /\ runs = 0
    /\ ops = 0
    /\ aqi = NoAqi
    /\ ins = NoInsert
    /\ procs \in ProcPairs
    /\ call = NoCall

NextInterleaved ==
    \/ \E p \in DOMAIN procs : Request(p)
    \/ \E p \in DOMAIN procs : Select(p)
    \/ \E p \in DOMAIN procs : Update(p)
    \/ \E p \in DOMAIN procs : Insert(p)
    \/ \E p \in DOMAIN procs : BulkUpdate(p)

SpecInterleaved == InitInterleaved /\ [][NextInterleaved]_vars

TypeOK == pc \in {"idle", "main", "transform_openaq", "transform_cams", "transform_weather",
                  "create_unified_data", "done", "failed"}

\* ------------------------------------------------------------ properties
LiveSources == {"openaq", "aqicn"}

\* the row that has the id of u after the step
SameRow(u, v) == v.id = u.id

\* C1: where a live update that supplied pm25 replaced a reanalysis pm25, the record
\* holds the live value and the live source, and keeps them through every
\* reanalysis update that follows
C1_LivePm25OutlivesReanalysis ==
    \A ts \in Timestamps :
        liveOverCams[ts] # <<>> =>
            \E u \in SelectByTimestamp(unified_data, ts) :
                u.pm25 = liveOverCams[ts][1] /\ u.pm25_source = liveOverCams[ts][2]

\* C2: unified_data never holds two records of the same hour and location
C2_OneRecordPerHour ==
    \A u, v \in unified_data :
        (TruncHour(u.timestamp_utc) = TruncHour(v.timestamp_utc) /\ u.location = v.location)
            => u = v

IaqiColumn ==
    [pm25 |-> "pm25", pm10 |-> "pm10", no2 |-> "no2", so2 |-> "so2", o3 |-> "o3", co |-> "co",
     t |-> "temperature_c", h |-> "humidity_pct", w |-> "wind_speed_ms", p |-> "pressure_hpa"]

\* C3: an update by fetch_latest_data keeps every field the reading has no value for,
\* and changes a source only when the reading has a value of that kind
C3_UpdateKeepsUnsuppliedFields ==
    [][\A resp \in AqicnResponses :
          (AqicnWrites(resp) /\ fetch_latest_data_handle(resp)) =>
              \A u \in SelectByTimestamp(unified_data, AqicnDtUtc(resp).t) :
                  \E v \in unified_data' :
                      /\ SameRow(u, v)
                      /\ \A k \in IaqiKeys :
                            resp.iaqi[k] = NULL => v[IaqiColumn[k]] = u[IaqiColumn[k]]
                      /\ (\A k \in Pollutants : resp.iaqi[k] = NULL)
                            => v.pm25_source = u.pm25_source
                      /\ (\A k \in {"t", "h", "w", "p"} : resp.iaqi[k] = NULL)
                            => v.weather_source = u.weather_source]_vars

\* the rows of a table without their serial ids, each with the number of times it occurs
Content(table) ==
    LET strip(u) == [u EXCEPT !.id = 0]
    IN  [c \in {strip(u) : u \in table} |-> Cardinality({u \in table : strip(u) = c})]

\* C4: after the second run of the pipeline over the same raw files unified_data holds
\* the records it held after the first run, each as often, with the same values and scores
C4_PipelineIdempotent == runs = MaxRuns => Content(unified_data) = Content(firstRun)

C4_Witness ==
    /\ runs = MaxRuns
    /\ pc = "done"
    /\ \E u \in unified_data : u.pm25 # NULL /\ u.temperature_c # NULL
    /\ rawInput.cams # <<>>

\* C5: a reanalysis update leaves every non-null pm10, no2, o3, so2, co value that a
\* live feed wrote last as it is
C5_ReanalysisKeepsLiveSlots ==
    [][ReprocessCams =>
          \A u \in unified_data : \A p \in Pollutants \ {"pm25"} :
              (lastWriter[u.timestamp_utc][p] = "live" /\ u[p] # NULL)
                  => \E v \in unified_data' : SameRow(u, v) /\ v[p] = u[p]]_vars

\* C6: a reanalysis update leaves a pm25 of exactly zero that carries a live source as it is
C6_ReanalysisKeepsLiveZero ==
    [][ReprocessCams =>
          \A u \in unified_data :
              (IsZero(u.pm25) /\ u.pm25_source \in LiveSources)
                  => \E v \in unified_data' :
                         SameRow(u, v) /\ v.pm25 = u.pm25 /\ v.pm25_source = u.pm25_source]_vars

\* C7: a record inserted by a live command has the weighted presence sum of its own
\* fields as its completeness score
C7_InsertedScoreIsPresenceSum ==
    [][(FetchOpenaq \/ FetchLatestData) =>
          \A v \in unified_data' :
              (\A u \in unified_data : ~SameRow(u, v))
                  => v.completeness_score = CompletenessScore(v)]_vars

\* the factor of the conversion from kg/m3: 10^9, and 10^6 for co
ConversionExponent(p) == IF p = "co" THEN 6 ELSE 9

\* C8: every reanalysis value in measurements is the mean of the raw values of its
\* timestamp and parameter converted from kg/m3, and every reanalysis value in
\* unified_data is a converted value
C8_ReanalysisValuesConverted ==
    /\ \A i \in DOMAIN measurements :
          measurements[i].data_source = "cams" =>
              LET m == measurements[i]
                  raw == SelectSeq(CamsAllData(rawInput.cams),
                                   LAMBDA r : r.timestamp_utc = m.timestamp_utc
                                                 /\ r.parameter = m.parameter)
              IN  m.value = Mean(MapSeq(raw, LAMBDA r :
                                     DecMulPow10(r.value, ConversionExponent(m.parameter))))
    /\ \A u \in unified_data : \A p \in Pollutants :
          lastWriter[u.timestamp_utc][p] = "cams" =>
              \E file \in CamsFiles, c \in CamsColumns :
                  /\ c \in file.cols
                  /\ u[p] = DecMulPow10(Mean(ColumnValues(file, u.timestamp_utc, c)),
                                        ConversionExponent(p))

PermutationsOf(s) == {[i \in DOMAIN s |-> s[f[i]]] : f \in Permutations(DOMAIN s)}

OpenaqWritten == pc \in {"transform_cams", "transform_weather", "create_unified_data", "done"}

\* C9: the openaq Observations and the weather rows that were written are the ones
\* deduplication keeps for every order of the raw rows
C9_DedupOrderIndependent ==
    /\ OpenaqWritten =>
          \A rows \in PermutationsOf(Concat(rawInput.openaq)) :
              RangeOf(OpenaqDataFrame(<<rows>>))
                  = {m \in RangeOf(measurements) : m.data_source = "openaq"}
    /\ pc \in {"create_unified_data", "done"} =>
          \A rows \in PermutationsOf(Concat(rawInput.weather)) :
              RangeOf(WeatherDataFrame(<<rows>>)) = RangeOf(weather)

UniqueKeys(df) ==
    \A i, j \in DOMAIN df : i # j => MeasurementKey(df[i]) # MeasurementKey(df[j])

\* C10: the DataFrame that transform_openaq and transform_cams hand to the writer has
\* at most one Observation for every (timestamp_utc, location, parameter, source)
C10_DedupUnique == pc \in {"transform_cams", "transform_weather"} => UniqueKeys(handed)

C10_Witness ==
    /\ pc = "transform_cams"
    /\ handed # <<>>
    /\ \E i, j \in DOMAIN Concat(rawInput.openaq) :
          LET a == OpenaqStandardize(Concat(rawInput.openaq)[i])
              b == OpenaqStandardize(Concat(rawInput.openaq)[j])
          IN  /\ i < j
              /\ MeasurementKey(a) = MeasurementKey(b)
              /\ a.value # NULL /\ b.value # NULL
              /\ a.value[1] >= 0 /\ b.value[1] >= 0
              /\ a.value # b.value

WeatherFields ==
    {"temperature_c", "humidity_pct", "pressure_hpa", "wind_speed_ms",
     "wind_direction_deg", "precipitation_mm", "cloud_cover_pct"}

\* the rows the join handed to the writer for hour h
JoinedAt(h) == {i \in DOMAIN handed : handed[i].timestamp_utc = h /\ handed[i].location = Location}

\* C11: the join output has exactly one record for every hour that has a pollutant
\* Observation or a weather row, none for any other hour, the fields of an absent side
\* are null, and unified_data holds exactly these records
C11_JoinTotality ==
    pc = "done" =>
        LET mh == HoursOf(measurements)
            wh == HoursOf(weather)
        IN  /\ \A h \in mh \cup wh : Cardinality(JoinedAt(h)) = 1
            /\ \A i \in DOMAIN handed : handed[i].timestamp_utc \in mh \cup wh
            /\ \A i \in DOMAIN handed :
                  /\ handed[i].timestamp_utc \notin wh =>
                        /\ \A f \in WeatherFields : handed[i][f] = NULL
                        /\ handed[i].weather_source = NoSource
                  /\ handed[i].timestamp_utc \notin mh =>
                        /\ \A p \in Pollutants : handed[i][p] = NULL
                        /\ handed[i].pm25_source = NoSource
            /\ Content(unified_data) = Content(RangeOf(handed))

C11_Witness ==
    /\ pc = "done"
    /\ \E h \in HoursOf(measurements) : h \notin HoursOf(weather)
    /\ \E h \in HoursOf(weather) : h \notin HoursOf(measurements)
    /\ Len(handed) = 2

WeightedFields ==
    {"pm25", "temperature_c", "humidity_pct", "wind_speed_ms", "pressure_hpa", "pm10"}

\* the weights in hundredths: 0.30, 0.20, 0.15, 0.15, 0.10, 0.10
FieldWeight ==
    [pm25 |-> 30, temperature_c |-> 20, humidity_pct |-> 15, wind_speed_ms |-> 15,
     pressure_hpa |-> 10, pm10 |-> 10]

PresentFields(u) == {f \in WeightedFields : u[f] # NULL}

RECURSIVE SumWeights(_)
SumWeights(S) ==
    IF S = {} THEN 0
    ELSE LET f == CHOOSE x \in S : TRUE IN FieldWeight[f] + SumWeights(S \ {f})

\* C12: every record of the join has the sum of the weights of its present weighted
\* fields as its score: 1.00 with all six present, 0.30 with pm25 alone
C12_JoinScoreIsPresenceSum ==
    pc = "done" =>
        \A i \in DOMAIN handed :
            /\ handed[i].completeness_score = SumWeights(PresentFields(handed[i]))
            /\ PresentFields(handed[i]) = WeightedFields => handed[i].completeness_score = 100
            /\ PresentFields(handed[i]) = {"pm25"} => handed[i].completeness_score = 30

C12_Witness ==
    /\ pc = "done"
    /\ \E i \in DOMAIN handed : PresentFields(handed[i]) = WeightedFields
    /\ \E u \in unified_data : PresentFields(u) = WeightedFields /\ u.completeness_score = 100

\* C13: every stored score lies in [0.0, 1.0], and a record whose present weighted
\* fields include those of another record has a score at least as high
C13_ScoreBoundedAndMonotone ==
    /\ \A u \in unified_data : 0 <= u.completeness_score /\ u.completeness_score <= 100
    /\ \A u, v \in unified_data :
          PresentFields(u) \subseteq PresentFields(v)
              => u.completeness_score <= v.completeness_score

ObservationKey(r) == <<r.timestamp_utc, r.parameter, r.data_source>>

\* C14: the reanalysis DataFrame handed to the writer has exactly one Observation for
\* every (timestamp_utc, parameter, source) of the grid-point Observations, its value
\* is the arithmetic mean of the group and its coordinates are (51.1694, 71.4491)
C14_SpatialMeanAtCanonicalPoint ==
    (pc = "transform_weather" /\ CamsAllData(rawInput.cams) # <<>>) =>
        LET raw == CamsAllData(rawInput.cams)
            group(k) == SelectSeq(raw, LAMBDA r : ObservationKey(r) = k)
            out(k) == {i \in DOMAIN handed : ObservationKey(handed[i]) = k}
        IN  /\ \A j \in DOMAIN raw :
                  LET k == ObservationKey(raw[j])
                  IN  /\ Cardinality(out(k)) = 1
                      /\ \A i \in out(k) :
                            /\ handed[i].value = Mean(MapSeq(group(k), LAMBDA r : r.value))
                            /\ handed[i].latitude = Dec(511694, -4)
                            /\ handed[i].longitude = Dec(714491, -4)
            /\ \A i \in DOMAIN handed :
                  \E j \in DOMAIN raw : ObservationKey(raw[j]) = ObservationKey(handed[i])

\* three grid points with values in the ratio 10 : 20 : 30 give the middle value
C14_Witness ==
    /\ pc = "transform_weather"
    /\ Len(CamsAllData(rawInput.cams)) = 3
    /\ \E a, b, c \in DOMAIN CamsAllData(rawInput.cams) :
          LET raw == CamsAllData(rawInput.cams)
          IN  /\ raw[a].value = Dec(1, -8) /\ raw[b].value = Dec(2, -8) /\ raw[c].value = Dec(3, -8)
              /\ raw[a].latitude # raw[b].latitude /\ raw[b].latitude # raw[c].latitude
    /\ Len(handed) = 1
    /\ handed[1].value = Dec(2, -8)
    /\ handed[1].parameter = "pm25"

\* the season of a month, by calendar month triplets
SeasonOfMonth ==
    [m \in 1..12 |->
        IF m \in {12, 1, 2} THEN "winter"
        ELSE IF m \in {3, 4, 5} THEN "spring"
        ELSE IF m \in {6, 7, 8} THEN "summer"
        ELSE "autumn"]

\* C16: every stored record has the season of its month, is_weekend exactly when its
\* UTC date is a Saturday or a Sunday, and is_heating_season exactly in the months
\* October to April
C16_TemporalFeatures ==
    \A u \in unified_data :
        LET d == DateOf(u.timestamp_utc)
        IN  /\ u.season = SeasonOfMonth[d.month]
            /\ u.is_weekend = (d.weekday \in {5, 6})
            /\ u.is_heating_season = (d.month \in {10, 11, 12, 1, 2, 3, 4})

\* a record of 00:00 on the Saturday that begins a month, written the hour after Friday 23:00
C16_Witness ==
    /\ calendar.weekday = 4 /\ calendar.lastDay /\ calendar.month = 11
    /\ \E u \in unified_data :
          /\ u.timestamp_utc = 60
          /\ u.is_weekend /\ u.season = "winter" /\ u.is_heating_season
          /\ u.weather_source = "open-meteo"

\* the six bands: concentration from, to (hundredths of ug/m3), index from, to
AqiBands ==
    {<<0, 1200, 0, 50>>, <<1210, 3540, 51, 100>>, <<3550, 5540, 101, 150>>,
     <<5550, 15040, 151, 200>>, <<15050, 25040, 201, 300>>, <<25050, 50040, 301, 500>>}

\* r is an integer nearest to (i_hi - i_lo) / (c_hi - c_lo) * (x - c_lo) + i_lo
NearestToInterpolation(r, x, b) ==
    LET n == (b[4] - b[3]) * (x - b[1])
        d == b[2] - b[1]
        e == 2 * (r - b[3]) * d - 2 * n
    IN  -d <= e /\ e <= d

\* C17: calculate_aqi and aqi_value return, for a concentration inside a band, the
\* rounded linear interpolation of the band, 0 for 0, 50 for 12.0, 100 for 35.4, and 500
\* for every concentration above the top band
C17_AqiInterpolation ==
    (aqi.by \in {"calculate_aqi", "aqi_value"} /\ aqi.pm25 # NULL) =>
        LET x == Hundredths(aqi.pm25)
        IN  /\ aqi.index # NULL
            /\ \A b \in AqiBands :
                  (b[1] <= x /\ x <= b[2]) => NearestToInterpolation(aqi.index[1], x, b)
            /\ x = 0 => aqi.index = <<0>>
            /\ x = 1200 => aqi.index = <<50>>
            /\ x = 3540 => aqi.index = <<100>>
            /\ x > 50040 => aqi.index = <<500>>

C17_Witness ==
    /\ aqi.by = "aqi_value"
    /\ aqi.pm25 = Dec(354, -1)
    /\ aqi.index = <<100>>

\* the records of table outside the given hours are in after as they are
OtherHoursKept(table, after, hours) ==
    \A u \in table : TruncHour(u.timestamp_utc) \notin hours => u \in after

\* C18: in every state the database reaches, the write of a live command for one hour
\* and the reanalysis update for the timestamps of a file leave every record of every
\* other hour unchanged in all fields
C18_OtherHoursUnchanged ==
    /\ \A resp \in OpenaqResponses :
          OpenaqWrites(resp) =>
              LET m == LatestMeasurement(resp.results)
              IN  OtherHoursKept(unified_data, OpenaqWrite(unified_data, m.utc.t, m.value),
                                 {TruncHour(m.utc.t)})
    /\ \A resp \in AqicnResponses :
          AqicnWrites(resp) =>
              LET dt == AqicnDtUtc(resp).t
              IN  OtherHoursKept(unified_data, AqicnWrite(unified_data, dt, resp.iaqi),
                                 {TruncHour(dt)})
    /\ \A file \in CamsFiles \ {CorruptFile} :
          OtherHoursKept(unified_data, bulk_update_db(unified_data, ProcessFileRecords(file)),
                         {TruncHour(r.timestamp_utc) : r \in ProcessFileRecords(file)})

C18_Witness ==
    /\ \E u, v \in unified_data :
          /\ TruncHour(u.timestamp_utc) = 0 /\ TruncHour(v.timestamp_utc) = 60
          /\ u.pm25 # NULL /\ v.pm25 # NULL
    /\ lastWriter[0].pm25 = "live"
    /\ lastWriter[60].pm25 = "cams"

\* C19: the table always holds a prefix of the DataFrame made of whole chunks of
\* CHUNK_SIZE rows (the last one may be shorter), also where the run was stopped, and
\* when insert_dataframe returns every row is in the table once and total is len(df)
C19_WholeChunksOnly ==
    ins.status \in {"running", "failed", "done"} =>
        /\ Len(ins.table) <= Len(ins.df)
        /\ ins.table = SubSeq(ins.df, 1, Len(ins.table))
        /\ Len(ins.table) < Len(ins.df) => Len(ins.table) % CHUNK_SIZE = 0
        /\ ins.total = Len(ins.table)
        /\ ins.status = "done" => (ins.table = ins.df /\ ins.total = Len(ins.df))
        /\ ins.status = "done" => ins.table = insert_dataframe(<<>>, ins.df)

\* the run is stopped in its second chunk: the first chunk stays, nothing of the second
C19_Witness ==
    /\ ins.status = "failed"
    /\ Len(ins.df) > CHUNK_SIZE
    /\ Len(ins.table) = CHUNK_SIZE

\* a raw OpenAQ row that transform_openaq is meant to keep
WellFormedOpenaq(r) ==
    r.datetime # UnparseableDatetime /\ r.value # NULL /\ r.value[1] >= 0

\* C20: once transform_openaq has run, every well-formed row of the CSV files has its
\* observation in measurements, whatever malformed rows the same files hold; once
\* transform_cams has run, the rows of every readable CAMS file are in measurements
C20_MalformedInputSkipped ==
    /\ pc \in {"transform_cams", "transform_weather", "create_unified_data", "done", "failed"} =>
          \A i \in DOMAIN Concat(rawInput.openaq) :
              LET r == Concat(rawInput.openaq)[i]
              IN  WellFormedOpenaq(r) =>
                      \E k \in DOMAIN measurements :
                          MeasurementKey(measurements[k]) = MeasurementKey(OpenaqStandardize(r))
    /\ pc \in {"transform_weather", "create_unified_data", "done"} =>
          LET readable == SelectSeq(rawInput.cams, LAMBDA f : f # CorruptFile)
          IN  \A i \in DOMAIN CamsAllData(readable) :
                  \E k \in DOMAIN measurements :
                      /\ measurements[k].data_source = "cams"
                      /\ ObservationKey(measurements[k]) = ObservationKey(CamsAllData(readable)[i])

\* a live response that the claim counts as a failed fetch
FetchFails(pr) ==
    IF pr.cmd = "fetch_openaq"
    THEN \/ pr.input.net = "error"
         \/ pr.input.results = <<>>
         \/ LatestMeasurement(pr.input.results).utc.kind \in {"missing", "bad"}
         \/ LatestMeasurement(pr.input.results).parameter # "pm25"
    ELSE /\ pr.cmd = "fetch_latest_data"
         /\ \/ pr.input.net = "error"
            \/ pr.input.status # "ok"
            \/ pr.input.s.kind \in {"missing", "bad"}

C22_NoInvalidGroundReadingStored ==
    /\ \A i \in DOMAIN measurements :
          measurements[i].data_source = "openaq" =>
              (measurements[i].value # NULL /\ measurements[i].value[1] >= 0)
    /\ \A u \in unified_data :
          u.pm25_source = "openaq" => (u.pm25 # NULL /\ u.pm25[1] >= 0)

\* the Observations of parameter p in hour h, in the order of the measurements table
ObservationsOf(h, p) ==
    SelectSeq(measurements, LAMBDA r : /\ TruncHour(r.timestamp_utc) = h
                                       /\ r.location = Location
                                       /\ r.parameter = p)

\* the integer d * 10^(-e), for an exponent e not above that of d
ScaledTo(d, e) == d[1] * Pow10(d[2] - e)

\* v is the sum of the values divided by their number, up to the last digit it keeps
IsMeanOf(v, values) ==
    LET n == Len(values)
        sum == DecSum(values)
        e == MinInt(v[2], sum[2])
    IN  Abs(ScaledTo(sum, e) - n * ScaledTo(v, e)) < n

\* C23: after the join every pollutant slot of a record is null when the hour has no
\* Observation of the parameter and otherwise the arithmetic mean of all of them, of
\* every source; pm25_source is set exactly when pm25 is, to a source of one of them
C23_SlotIsHourlyMean ==
    pc = "done" =>
        \A u \in unified_data :
            /\ \A p \in Pollutants :
                  LET obs == ObservationsOf(u.timestamp_utc, p)
                  IN  IF obs = <<>> THEN u[p] = NULL
                      ELSE /\ u[p] # NULL
                           /\ IsMeanOf(u[p], [k \in DOMAIN obs |-> obs[k].value])
            /\ (u.pm25_source # NoSource) <=> (u.pm25 # NULL)
            /\ u.pm25 # NULL =>
                  \E k \in DOMAIN ObservationsOf(u.timestamp_utc, "pm25") :
                      ObservationsOf(u.timestamp_utc, "pm25")[k].data_source = u.pm25_source

\* a pm25 slot averaged over a ground-station and a reanalysis Observation of one hour
C23_Witness ==
    /\ pc = "done"
    /\ \E u \in unified_data :
          LET obs == ObservationsOf(u.timestamp_utc, "pm25")
          IN  /\ u.pm25 # NULL
              /\ \E j, k \in DOMAIN obs : /\ obs[j].data_source = "openaq"
                                          /\ obs[k].data_source = "cams"
                                          /\ obs[j].value # obs[k].value

\* the offset texts of the form +HH:MM or -HH:MM
OfTheForm(tz) ==
    /\ Len(tz) = 6
    /\ tz[1] \in {"+", "-"}
    /\ tz[4] = ":"
    /\ \A k \in {2, 3, 5, 6} : IsDigit(tz[k])

\* C24: the UTC time of a converted record is its local time minus its offset: the
\* offset of the text +HH:MM or -HH:MM in fetch_latest_data, 6 hours when the feed
\* supplies none, and 6 hours in transform_weather
C24_UtcIsLocalMinusOffset ==
    /\ (call.op = "fetch_latest_data" /\ (OfTheForm(call.tz) \/ call.tz = <<>>)) =>
          call.dt_utc = TimeAt(call.local - call.offset)
    /\ call.op = "transform_weather" => call.dt_utc = TimeAt(call.local - 6 * 60)

\* a negative offset has moved the time forward
C24_Witness ==
    /\ call.op = "fetch_latest_data"
    /\ OfTheForm(call.tz)
    /\ call.offset < 0
    /\ call.dt_utc.kind = "time"
    /\ call.dt_utc.t > call.local

\* a command run alone, from its request to its last statement
RunAlone(pr, table) ==
    IF pr.cmd = "fetch_openaq"
    THEN IF OpenaqWrites(pr.input)
         THEN OpenaqWrite(table, ProcDtUtc(pr), LatestMeasurement(pr.input.results).value)
         ELSE table
    ELSE IF pr.cmd = "fetch_latest_data"
    THEN IF AqicnWrites(pr.input) THEN AqicnWrite(table, ProcDtUtc(pr), pr.input.iaqi) ELSE table
    ELSE process_file(table, pr.input)

Finished(pr) == pr.pc \in {"done", "returned", "raised"}

\* the timestamps a command writes at
Targets(pr) ==
    IF pr.cmd = "fetch_openaq" THEN (IF OpenaqWrites(pr.input) THEN {ProcDtUtc(pr)} ELSE {})
    ELSE IF pr.cmd = "fetch_latest_data"
    THEN (IF AqicnWrites(pr.input) THEN {ProcDtUtc(pr)} ELSE {})
    ELSE IF pr.input.kind = "corrupt" THEN {}
    ELSE {r.timestamp_utc : r \in ProcessFileRecords(pr.input)}

\* C25: when both commands have ended, whatever the order of their statements was,
\* a timestamp both of them write at has exactly one record, and the table is the
\* one that the first command followed by the second, or the second followed by the
\* first, leaves
C25_InterleavingsAreSerial ==
    (\A p \in DOMAIN procs : Finished(procs[p])) =>
        /\ \A ts \in Targets(procs[1]) \cap Targets(procs[2]) :
              unified_data # {} => Cardinality(SelectByTimestamp(unified_data, ts)) = 1
        /\ \/ Content(unified_data) = Content(RunAlone(procs[2], RunAlone(procs[1], firstRun)))
           \/ Content(unified_data) = Content(RunAlone(procs[1], RunAlone(procs[2], firstRun)))

\* C26: whatever inserts and updates the join, fetch_openaq, fetch_latest_data and
\* reprocess_cams have made, the score stored in every record is the sum of the
\* weights of the weighted fields that the record holds now
C26_ScoreNeverStale ==
    \A u \in unified_data : u.completeness_score = SumWeights(PresentFields(u))

\* the long and the short name of the column of each pollutant in a reanalysis file
ColumnsFor ==
    [pm25 |-> {"pm2p5"}, pm10 |-> {"pm10"}, no2 |-> {"nitrogen_dioxide", "no2"},
     o3 |-> {"ozone", "go3"}, so2 |-> {"sulphur_dioxide", "so2"},
     co |-> {"carbon_monoxide", "co"}]

\* C27: for every timestamp of the file and every pollutant that has a non-null
\* column under its long or its short name, the record passed to bulk_update_db
\* holds the converted value of such a column, not null
C27_RecordCarriesEveryPollutant ==
    call.op = "process_file" =>
        \A row \in GroupByTimestampMean(call.file), p \in Pollutants :
            LET present == {c \in ColumnsFor[p] \cap call.file.cols : row.v[c] # NULL}
            IN  present # {} =>
                    \E r \in call.records :
                        /\ r.timestamp_utc = row.timestamp_utc
                        /\ r[p] # NULL
                        /\ r[p] \in {DecMulPow10(row.v[c], ConversionExponent(p)) : c \in present}

\* C28: the Observations that create_unified_data averages into one pollutant slot,
\* ground-station and reanalysis rows of one hour and parameter, all carry one unit
C28_AverageOverOneUnit ==
    pc = "done" =>
        \A u \in unified_data, p \in Pollutants :
            LET obs == ObservationsOf(u.timestamp_utc, p)
            IN  \A j, k \in DOMAIN obs : obs[j].unit = obs[k].unit

\* C29: two records of one calendar day store the same day_of_week, whether the join
\* or an incremental insert created them
C29_OneDayNumbering ==
    \A u, v \in unified_data :
        DateOf(u.timestamp_utc) = DateOf(v.timestamp_utc) => u.day_of_week = v.day_of_week

\* the category that an index value belongs to
CategoryOfIndex(i) ==
    IF i <= 50 THEN "good"
    ELSE IF i <= 100 THEN "moderate"
    ELSE IF i <= 150 THEN "unhealthy_sensitive"
    ELSE IF i <= 200 THEN "unhealthy"
    ELSE IF i <= 300 THEN "very_unhealthy"
    ELSE "hazardous"

\* C30: for a concentration that is not negative, calculate_aqi returns no less than
\* it returns for the concentrations 0.05 and 0.1 below it, between two bands too, and
\* its result lies in the index band of the category get_aqi_category names
C30_AqiMonotoneAndInCategory ==
    (aqi.by = "calculate_aqi" /\ aqi.pm25 # NULL /\ aqi.pm25[1] >= 0) =>
        LET x == Hundredths(aqi.pm25)
        IN  /\ \A y \in {x - 5, x - 10} :
                  y >= 0 => \A r \in calculate_aqi(Norm(<<y, -2>>)) : r[1] <= aqi.index[1]
            /\ CategoryOfIndex(aqi.index[1]) = get_aqi_category(aqi.pm25)

====
